---- MODULE Spec2Model ----
(***************************************************************************)
(* A model of the transformer demo: the attention forward pass, the        *)
(* autoregressive generation loop, the tokenizer and the Lambda handlers   *)
(* of src/src/lambda_functions.                                            *)
(*                                                                         *)
(* Floating-point tensors are modelled by extended values: a finite        *)
(* integer, -inf, +inf or NaN.  A softmax weight is kept as the fraction   *)
(* num/den so that normalisation can be checked exactly.                   *)
(***************************************************************************)
EXTENDS Integers, Sequences, FiniteSets, TLC

VARIABLES
    \* SimpleTransformer.forward (visualize_attention/transformer.py)
    x, mask, training, attentions, fpc,
    \* SimpleTokenizer (generate_text/tokenizer.py)
    vocab_size, word_to_idx, idx_to_word, texts, text, add_special_tokens,
    ids, skip_special_tokens, decoded, tpc,
    \* the number of build_vocab calls on the tokenizer, the file written by
    \* save and the tokenizer returned by load
    n_builds, file, loaded,
    \* SimpleTransformer.generate (visualize_attention/transformer.py)
    g_prompt, g_n, max_length, g_temperature, g_top_k, g_tokenizer,
    g_i, g_next_token, g_result, gpc,
    \* generate_text/main.py: the process globals model and tokenizer, and
    \* the event, locals and response of the invocation in progress
    model, tokenizer, event, load_called, prompt, temperature, max_tokens,
    top_k, output_tensor, n_appended, logits, next_token_logits, next_token,
    response, hpc,
    \* the outcomes of the load_model calls of the process so far, and the
    \* number of the call that last assigned model and tokenizer (0: none)
    loads, model_from, tokenizer_from,
    \* visualize_attention/main.py: the process globals model and tokenizer,
    \* and the event, locals and response of the invocation in progress
    v_model, v_tokenizer, v_event, v_load_called, v_text, layer_idx, head_idx,
    v_response, vpc, v_loads, v_model_from, v_tokenizer_from,
    \* a constructor call of attention.py, encoder.py or transformer.py: the
    \* class, the arguments and what the call produced
    c_class, c_args, c_object, cpc,
    \* the cost-drift run: the data of the cost query, the exception raised in
    \* the try block of main, the exit status of the process
    cost_data, cd_exception, exit_status, cdpc,
    \* call_api (streamlit/app.py): the endpoint, what requests.post did, the pair
    \* returned to the page and what the page shows
    endpoint, post_outcome, result, error, shown, apc,
    \* check_warmup_status (streamlit/app.py): the session state, the script runs
    \* so far, the health and warm-up requests sent so far, whether a health
    \* check got status 200, and the result of the run's last health check
    session_state, runs, n_health, n_warmup, health_200, models_ready, wpc

fwdVars == <<x, mask, training, attentions, fpc>>
tokVars == <<vocab_size, word_to_idx, idx_to_word, texts, text,
             add_special_tokens, ids, skip_special_tokens, decoded, tpc,
             n_builds, file, loaded>>
genVars == <<g_prompt, g_n, max_length, g_temperature, g_top_k, g_tokenizer,
             g_i, g_next_token, g_result, gpc>>
globals == <<model, tokenizer, loads, model_from, tokenizer_from>>
locals == <<prompt, temperature, max_tokens, top_k, output_tensor, n_appended,
            logits, next_token_logits, next_token>>
hVars == <<globals, event, load_called, locals, response, hpc>>
v_globals == <<v_model, v_tokenizer, v_loads, v_model_from, v_tokenizer_from>>
v_locals == <<v_text, layer_idx, head_idx>>
visVars == <<v_globals, v_event, v_load_called, v_locals, v_response, vpc>>
conVars == <<c_class, c_args, c_object, cpc>>
cdVars == <<cost_data, cd_exception, exit_status, cdpc>>
apiVars == <<endpoint, post_outcome, result, error, shown, apc>>
warmVars == <<session_state, runs, n_health, n_warmup, health_200,
              models_ready, wpc>>
vars == <<fwdVars, tokVars, genVars, hVars, visVars, conVars, cdVars, apiVars, warmVars>>

\* what the actions of one component leave alone
fwdOthers == <<tokVars, genVars, hVars, visVars, conVars, cdVars, apiVars, warmVars>>
tokOthers == <<fwdVars, genVars, hVars, visVars, conVars, cdVars, apiVars, warmVars>>
genOthers == <<fwdVars, tokVars, hVars, visVars, conVars, cdVars, apiVars, warmVars>>
hOthers == <<fwdVars, tokVars, genVars, visVars, conVars, cdVars, apiVars, warmVars>>
visOthers == <<fwdVars, tokVars, genVars, hVars, conVars, cdVars, apiVars, warmVars>>
conOthers == <<fwdVars, tokVars, genVars, hVars, visVars, cdVars, apiVars, warmVars>>
cdOthers == <<fwdVars, tokVars, genVars, hVars, visVars, conVars, apiVars, warmVars>>
apiOthers == <<fwdVars, tokVars, genVars, hVars, visVars, conVars, cdVars, warmVars>>
warmOthers == <<fwdVars, tokVars, genVars, hVars, visVars, conVars, cdVars, apiVars>>

(***************************************************************************)
(* Extended values (IEEE-754 as torch uses it on the CPU)                  *)
(***************************************************************************)
Fin(v) == [k |-> "fin", v |-> v]
NegInf == [k |-> "ninf", v |-> 0]
PosInf == [k |-> "pinf", v |-> 0]
NaN == [k |-> "nan", v |-> 0]

\* a < b on extended values; any comparison with NaN is false
ExtLess(a, b) ==
    /\ a.k # "nan" /\ b.k # "nan"
    /\ \/ a.k = "ninf" /\ b.k # "ninf"
       \/ a.k = "fin" /\ b.k = "pinf"
       \/ a.k = "fin" /\ b.k = "fin" /\ a.v < b.v

RECURSIVE SumSeq(_)
SumSeq(s) == IF s = <<>> THEN 0 ELSE Head(s) + SumSeq(Tail(s))

RECURSIVE SumOver(_, _)
SumOver(f, S) ==
    IF S = {} THEN 0
    ELSE LET e == CHOOSE e \in S : TRUE IN f[e] + SumOver(f, S \ {e})

Max(S) == CHOOSE m \in S : \A o \in S : o <= m

\* exp(d) for d <= 0 in thousandths.  float32 exp underflows to exactly 0
\* below about -103.97; above that the result is positive.
ExpQ(d) ==
    IF d < -103 THEN 0
    ELSE IF d = 0 THEN 1000
    ELSE IF d = -1 THEN 368
    ELSE IF d = -2 THEN 135
    ELSE IF d = -3 THEN 50
    ELSE 1

NaNWeight == [nan |-> TRUE, num |-> 0, den |-> 1]

\* F.softmax(v, dim=-1) of one row v (a function from indices to extended
\* values).  torch computes exp(v - max(v)) / sum: a NaN entry, a +inf entry
\* (inf - inf) or a row of -inf only (-inf - -inf) makes every output NaN.
Softmax(v) ==
    LET D == DOMAIN v
        poisoned == \/ \E i \in D : v[i].k \in {"nan", "pinf"}
                    \/ \A i \in D : v[i].k = "ninf"
    IN  IF poisoned THEN [i \in D |-> NaNWeight]
        ELSE LET m == Max({v[i].v : i \in {q \in D : v[q].k = "fin"}})
                 e == [i \in D |->
                          IF v[i].k = "fin" THEN ExpQ(v[i].v - m) ELSE 0]
                 d == SumOver(e, D)
             IN  [i \in D |-> [nan |-> FALSE, num |-> e[i], den |-> d]]

(***************************************************************************)
(* SimpleTransformer.forward: masks and attention weights                  *)
(***************************************************************************)
MaxSeqLen == 3   \* longest token sequence given to forward
NLayers == 2     \* encoder layers of the modelled configuration
NHeads == 2      \* attention heads of the modelled configuration

PadId == 0
FwdTokenIds == {0, 4}
FwdInputs == UNION {[1..n -> FwdTokenIds] : n \in 1..MaxSeqLen}

\* a variant of MaskFillValue that fills with -inf instead of -1e9
MaskFillMinusInf == NegInf

\* the value masked_fill writes into masked score entries
MaskFillValue == Fin(-1000000000)

\* the mask argument of forward: None, or the padding mask (x != 0) given as
\* a (batch, 1, seq) tensor, or as a (batch, 1, 1, seq) tensor
MaskNone == [dim |-> 0, m |-> <<>>]
PaddingMask(xs, dim) == [dim |-> dim, m |-> [j \in 1..Len(xs) |-> xs[j] # PadId]]
MaskArgs(xs) == {MaskNone, PaddingMask(xs, 3), PaddingMask(xs, 4)}

\* torch.triu(ones(L, L), diagonal=1): TRUE strictly above the diagonal
CausalMask(i, j) == j > i

\* a variant of CombinedMask without the causal part of lines 73-75
CombinedMaskNoCausal(xs, mk, i, j) ==
    LET m4 == IF mk.dim = 0 THEN PaddingMask(xs, 4) ELSE mk
    IN  IF m4.dim = 3 THEN m4.m[i] ELSE m4.m[j]

\* the combined (batch, 1, L, L) mask of transformer.py lines 69-81, entry
\* [i][j]; a 3-dim mask is unsqueezed at the LAST axis, which puts its
\* entries on the query axis i, a 4-dim mask broadcasts over the key axis j
CombinedMask(xs, mk, i, j) ==
    LET m4 == IF mk.dim = 0 THEN PaddingMask(xs, 4) ELSE mk
    IN  IF m4.dim = 3
        THEN m4.m[i] /\ ~CausalMask(i, j)
        ELSE m4.m[j] /\ ~CausalMask(i, j)

\* Q.K^T / sqrt(d_k) depends on the weights: any finite score can occur.
\* The weights of a layer are drawn from these patterns.
ScoreFns == {"flat", "later", "earlier"}
RawScore(s, h, i, j) ==
    CASE s = "flat" -> 0
      [] s = "later" -> j * h
      [] s = "earlier" -> i - j

\* nn.Dropout(p = 0.1) on the attention weights: identity in eval mode; in
\* training mode a dropped entry is 0 and a kept one is scaled by 1/(1-p)
DropPatterns == {{}, {<<1, 1>>}}
Dropout(w, train, dropped) ==
    IF ~train \/ w.nan THEN w
    ELSE IF dropped THEN [nan |-> FALSE, num |-> 0, den |-> w.den * 9]
    ELSE [nan |-> FALSE, num |-> w.num * 10, den |-> w.den * 9]

\* ScaledDotProductAttention.forward for one head: the attention matrix
ScaledDotProductAttention(xs, mk, s, h, train, drop) ==
    LET L == Len(xs)
        scores == [i \in 1..L |-> [j \in 1..L |->
                     IF CombinedMask(xs, mk, i, j)
                     THEN Fin(RawScore(s, h, i, j))
                     ELSE MaskFillValue]]
    IN  [i \in 1..L |->
            LET row == Softmax(scores[i])
            IN  [j \in 1..L |-> Dropout(row[j], train, <<i, j>> \in drop)]]

\* one EncoderLayer: the attention tensor [head][query][key] it returns
EncoderLayer(xs, mk, s, train, drop) ==
    [h \in 1..NHeads |-> ScaledDotProductAttention(xs, mk, s, h, train, drop)]

FwdInit ==
    /\ x = <<>>
    /\ mask = MaskNone
    /\ training = FALSE
    /\ attentions = <<>>
    /\ fpc = "idle"

\* model(x, mask): entry of SimpleTransformer.forward
ForwardCall ==
    /\ fpc = "idle"
    /\ \E xs \in FwdInputs : \E mk \in MaskArgs(xs) : \E tr \in BOOLEAN :
          /\ x' = xs
          /\ mask' = mk
          /\ training' = tr
    /\ attentions' = <<>>
    /\ fpc' = "encoding"
    /\ UNCHANGED fwdOthers

\* one iteration of TransformerEncoder.forward's loop over the layers
EncoderStep ==
    /\ fpc = "encoding"
    /\ \E s \in ScoreFns : \E drop \in DropPatterns :
          attentions' = Append(attentions, EncoderLayer(x, mask, s, training, drop))
    /\ fpc' = IF Len(attentions) + 1 = NLayers THEN "done" ELSE "encoding"
    /\ UNCHANGED <<x, mask, training>>
    /\ UNCHANGED fwdOthers

FwdNext == ForwardCall \/ EncoderStep

(***************************************************************************)
(* SimpleTokenizer                                                         *)
(***************************************************************************)
MaxTextLen == 3   \* longest text (in characters) given to the tokenizer
MaxBuilds == 2    \* most build_vocab calls on one tokenizer

\* a text is a sequence of characters; the alphabet has a lower-case and an
\* upper-case letter, a blank and a punctuation mark
Alphabet == {"a", "B", " ", ","}
Texts == UNION {[1..n -> Alphabet] : n \in 0..MaxTextLen}
ShortTexts == {t \in Texts : Len(t) <= 1}
TextLists == {<<t>> : t \in Texts} \cup {<<t, u>> : t \in ShortTexts, u \in ShortTexts}
VocabSizes == {3, 4, 5, 6, 10}
\* the texts of a build_vocab call that follows an earlier one
RebuildLists == {<<t>> : t \in ShortTexts} \cup {<< <<"a">>, <<"B">> >>}

\* a token is a sequence of characters; a special token is one symbol
PAD == <<"<PAD>">>
UNK == <<"<UNK>">>
BOS == <<"<BOS>">>
EOS == <<"<EOS>">>
pad_token_id == 0
unk_token_id == 1
bos_token_id == 2
eos_token_id == 3
special_tokens == (PAD :> 0) @@ (UNK :> 1) @@ (BOS :> 2) @@ (EOS :> 3)

\* str.lower, one character
LowerCase == {"a", "b", "c", "d", "e", "f", "g", "h", "i", "j", "k", "l", "m",
              "n", "o", "p", "q", "r", "s", "t", "u", "v", "w", "x", "y", "z"}
UpperCase == ("A" :> "a") @@ ("B" :> "b") @@ ("D" :> "d") @@ ("O" :> "o") @@ ("T" :> "t")
LowerChar(c) == IF c \in DOMAIN UpperCase THEN UpperCase[c] ELSE c
Lower(t) == [i \in 1..Len(t) |-> LowerChar(t[i])]
IsWordChar(c) == c \in LowerCase \cup DOMAIN UpperCase \cup {"_"}     \* \w
IsSpace(c) == c = " "                                \* \s

\* re.findall(r'\b\w+\b|[^\w\s]', text): the maximal runs of word characters
\* and every single character that is neither a word character nor a blank,
\* from left to right
FindAll(t) ==
    LET IsStart(i) == IF IsWordChar(t[i]) THEN i = 1 \/ ~IsWordChar(t[i - 1])
                      ELSE ~IsSpace(t[i])
        RunEnd(i) == CHOOSE j \in i..Len(t) :
                        /\ \A q \in i..j : IsWordChar(t[q])
                        /\ j = Len(t) \/ ~IsWordChar(t[j + 1])
        starts == SelectSeq([i \in 1..Len(t) |-> i], IsStart)
    IN  [n \in 1..Len(starts) |->
            IF IsWordChar(t[starts[n]])
            THEN SubSeq(t, starts[n], RunEnd(starts[n]))
            ELSE <<t[starts[n]]>>]

\* a variant of Tokenize without the lowercasing of line 38
TokenizeNoLower(t) == FindAll(t)

\* SimpleTokenizer._tokenize
Tokenize(t) == FindAll(Lower(t))

RECURSIVE Flatten(_)
Flatten(ss) == IF ss = <<>> THEN <<>> ELSE Head(ss) \o Flatten(Tail(ss))

Range(f) == {f[i] : i \in DOMAIN f}
Count(ws, w) == Cardinality({i \in 1..Len(ws) : ws[i] = w})
FirstIndex(ws, w) == CHOOSE i \in 1..Len(ws) : ws[i] = w /\ \A q \in 1..(i - 1) : ws[q] # w

\* a variant of MostCommon that takes the first n distinct words in order of
\* first occurrence, whatever their counts
MostCommonFirstSeen(ws, n, taken) ==
    LET IsFirst(i) == \A q \in 1..(i - 1) : ws[q] # ws[i]
        firsts == SelectSeq([i \in 1..Len(ws) |-> i], IsFirst)
        m == IF n <= 0 THEN 0 ELSE IF n < Len(firsts) THEN n ELSE Len(firsts)
    IN  [k \in 1..m |-> ws[firsts[k]]]

\* Counter(all_words).most_common(n): the n most frequent words, most
\* frequent first, equal counts in order of first occurrence; [] when n <= 0
RECURSIVE MostCommon(_, _, _)
MostCommon(ws, n, taken) ==
    LET left == Range(ws) \ Range(taken)
    IN  IF n <= 0 \/ left = {} THEN taken
        ELSE LET best == CHOOSE w \in left : \A o \in left :
                            \/ Count(ws, w) > Count(ws, o)
                            \/ /\ Count(ws, w) = Count(ws, o)
                               /\ FirstIndex(ws, w) <= FirstIndex(ws, o)
             IN  MostCommon(ws, n - 1, Append(taken, best))

\* the loop of build_vocab, lines 63-66: idx = len(word_to_idx), then both
\* maps are assigned
RECURSIVE AddWords(_, _, _)
AddWords(w2i, i2w, ws) ==
    IF ws = <<>> THEN <<w2i, i2w>>
    ELSE LET idx == Cardinality(DOMAIN w2i)
             w == Head(ws)
             nw2i == [k \in DOMAIN w2i \cup {w} |-> IF k = w THEN idx ELSE w2i[k]]
             ni2w == [k \in DOMAIN i2w \cup {idx} |-> IF k = idx THEN w ELSE i2w[k]]
         IN  AddWords(nw2i, ni2w, Tail(ws))

\* a variant of Encode that drops out-of-vocabulary tokens instead of
\* mapping them to UNK
EncodeNoUnk(w2i, t, special) ==
    LET InVocabulary(w) == w \in DOMAIN w2i
        tokens == SelectSeq(Tokenize(t), InVocabulary)
        body == [i \in 1..Len(tokens) |-> w2i[tokens[i]]]
    IN  IF special THEN <<bos_token_id>> \o body \o <<eos_token_id>> ELSE body

\* SimpleTokenizer.encode
Encode(w2i, t, special) ==
    LET tokens == Tokenize(t)
        body == [i \in 1..Len(tokens) |->
                    IF tokens[i] \in DOMAIN w2i THEN w2i[tokens[i]] ELSE unk_token_id]
    IN  IF special THEN <<bos_token_id>> \o body \o <<eos_token_id>> ELSE body

\* ' '.join(tokens)
RECURSIVE Join(_)
Join(ts) ==
    IF ts = <<>> THEN <<>>
    ELSE IF Len(ts) = 1 THEN ts[1]
    ELSE LET h == Len(ts) \div 2
         IN  Join(SubSeq(ts, 1, h)) \o <<" ">> \o Join(SubSeq(ts, h + 1, Len(ts)))

\* SimpleTokenizer.decode
DecodeTokens(i2w, is, skip) ==
    LET Kept(idx) == ~(skip /\ idx \in {pad_token_id, bos_token_id, eos_token_id})
        kept == SelectSeq(is, Kept)
    IN  [n \in 1..Len(kept) |-> IF kept[n] \in DOMAIN i2w THEN i2w[kept[n]] ELSE UNK]

\* a variant of Decode that never skips special tokens
DecodeKeepSpecial(i2w, is, skip) == Join(DecodeTokens(i2w, is, FALSE))
Decode(i2w, is, skip) == Join(DecodeTokens(i2w, is, skip))

InitialIdxToWord == (0 :> PAD) @@ (1 :> UNK) @@ (2 :> BOS) @@ (3 :> EOS)

\* str(k) and int(s) for a non-negative integer: json.dump writes the integer
\* keys of a dict as strings of decimal digits, load converts them back
Digits == <<"0", "1", "2", "3", "4", "5", "6", "7", "8", "9">>
RECURSIVE KeyString(_)
KeyString(k) ==
    IF k < 10 THEN <<Digits[k + 1]>>
    ELSE KeyString(k \div 10) \o <<Digits[(k % 10) + 1]>>
DigitValue(c) == CHOOSE v \in 0..9 : Digits[v + 1] = c
RECURSIVE ParseInt(_)
ParseInt(s) ==
    IF Len(s) = 1 THEN DigitValue(s[1])
    ELSE 10 * ParseInt(SubSeq(s, 1, Len(s) - 1)) + DigitValue(s[Len(s)])

\* SimpleTokenizer.save: the record json.dump writes
JsonDump(vs, w2i, i2w) ==
    [vocab_size |-> vs,
     word_to_idx |-> w2i,
     idx_to_word |-> [s \in {KeyString(k) : k \in DOMAIN i2w} |->
                         i2w[CHOOSE k \in DOMAIN i2w : KeyString(k) = s]]]

NoFile == [exists |-> FALSE, data |-> <<>>]
NoTokenizer == [exists |-> FALSE, vocab_size |-> 0, word_to_idx |-> <<>>,
                idx_to_word |-> <<>>]

\* a variant of Load that keeps the maps of the constructor
LoadNewOnly(data) ==
    [exists |-> TRUE, vocab_size |-> data.vocab_size,
     word_to_idx |-> special_tokens, idx_to_word |-> InitialIdxToWord]

\* SimpleTokenizer.load: cls(vocab_size), then both maps are replaced
Load(data) ==
    [exists |-> TRUE, vocab_size |-> data.vocab_size,
     word_to_idx |-> data.word_to_idx,
     idx_to_word |-> [k \in {ParseInt(s) : s \in DOMAIN data.idx_to_word} |->
                         data.idx_to_word[CHOOSE s \in DOMAIN data.idx_to_word :
                                             ParseInt(s) = k]]]

TokInit ==
    /\ vocab_size = 10
    /\ word_to_idx = special_tokens
    /\ idx_to_word = InitialIdxToWord
    /\ texts = <<>>
    /\ text = <<>>
    /\ add_special_tokens = TRUE
    /\ ids = <<>>
    /\ skip_special_tokens = TRUE
    /\ decoded = <<>>
    /\ tpc = "new"
    /\ n_builds = 0
    /\ file = NoFile
    /\ loaded = NoTokenizer

\* SimpleTokenizer(vocab_size): a fresh tokenizer
NewTokenizer ==
    /\ \E vs \in VocabSizes : vocab_size' = vs
    /\ word_to_idx' = special_tokens
    /\ idx_to_word' = InitialIdxToWord
    /\ texts' = <<>> /\ text' = <<>> /\ ids' = <<>> /\ decoded' = <<>>
    /\ add_special_tokens' = TRUE /\ skip_special_tokens' = TRUE
    /\ tpc' = "new"
    /\ n_builds' = 0
    /\ file' = NoFile
    /\ loaded' = NoTokenizer
    /\ UNCHANGED tokOthers

\* build_vocab(texts), on the fresh tokenizer or after an earlier call
BuildVocab ==
    /\ tpc \in {"new", "built"}
    /\ n_builds < MaxBuilds
    /\ n_builds' = n_builds + 1
    /\ \E ts \in IF n_builds = 0 THEN TextLists ELSE RebuildLists :
          LET all_words == Flatten([i \in 1..Len(ts) |-> Tokenize(ts[i])])
              words == MostCommon(all_words,
                                  vocab_size - Cardinality(DOMAIN special_tokens), <<>>)
              maps == AddWords(word_to_idx, idx_to_word, words)
          IN  /\ texts' = ts
              /\ word_to_idx' = maps[1]
              /\ idx_to_word' = maps[2]
    /\ tpc' = "built"
    /\ UNCHANGED <<vocab_size, text, add_special_tokens, ids, skip_special_tokens, decoded>>
    /\ UNCHANGED <<file, loaded>>
    /\ UNCHANGED tokOthers

\* save(path), into a new temporary directory
Save ==
    /\ tpc \in {"new", "built"}
    /\ file' = [exists |-> TRUE,
                data |-> JsonDump(vocab_size, word_to_idx, idx_to_word)]
    /\ tpc' = "saved"
    /\ UNCHANGED <<vocab_size, word_to_idx, idx_to_word, texts, text,
                   add_special_tokens, ids, skip_special_tokens, decoded,
                   n_builds, loaded>>
    /\ UNCHANGED tokOthers

\* loaded = SimpleTokenizer.load(path)
LoadCall ==
    /\ tpc = "saved"
    /\ file.exists
    /\ loaded' = Load(file.data)
    /\ tpc' = "loaded"
    /\ UNCHANGED <<vocab_size, word_to_idx, idx_to_word, texts, text,
                   add_special_tokens, ids, skip_special_tokens, decoded,
                   n_builds, file>>
    /\ UNCHANGED tokOthers

\* a text the vocabulary was not built from
ProbeTexts == {<<"B", "a">>}

\* ids = encode(text, add_special_tokens)
EncodeCall ==
    /\ tpc \in {"built", "encoded", "decoded"}
    /\ \E t \in Range(texts) \cup ProbeTexts : \E sp \in BOOLEAN :
          /\ text' = t
          /\ add_special_tokens' = sp
          /\ ids' = Encode(word_to_idx, t, sp)
    /\ decoded' = <<>>
    /\ tpc' = "encoded"
    /\ UNCHANGED <<vocab_size, word_to_idx, idx_to_word, texts, skip_special_tokens>>
    /\ UNCHANGED <<n_builds, file, loaded>>
    /\ UNCHANGED tokOthers

\* decoded = decode(ids, skip_special_tokens)
DecodeCall ==
    /\ tpc = "encoded"
    /\ \E sk \in BOOLEAN :
          /\ skip_special_tokens' = sk
          /\ decoded' = Decode(idx_to_word, ids, sk)
    /\ tpc' = "decoded"
    /\ UNCHANGED <<vocab_size, word_to_idx, idx_to_word, texts, text,
                   add_special_tokens, ids>>
    /\ UNCHANGED <<n_builds, file, loaded>>
    /\ UNCHANGED tokOthers

TokNext == NewTokenizer \/ BuildVocab \/ Save \/ LoadCall \/ EncodeCall \/ DecodeCall


(***************************************************************************)
(* Sampling: temperature, top-k filtering, softmax, multinomial            *)
(***************************************************************************)
MaxNewTokens == 2     \* largest token budget (max_length, max_tokens) requested

\* the model vocabulary of the generation runs: the four reserved ids and
\* the id of one word
VocabIds == 0..4
max_seq_length == 128

\* the vocabulary read from tokenizer.json in the generation runs
LoadedWordToIdx == special_tokens @@ (<<"a">> :> 4)
LoadedIdxToWord == InitialIdxToWord @@ (4 :> <<"a">>)

\* the logits of the last position depend on the weights: any finite
\* vector can occur.  They are drawn from these patterns.
LogitPatterns == {"flat", "distinct", "unk_top", "eos_top"}
Logits(p) ==
    [t \in VocabIds |-> Fin(
        CASE p = "flat" -> 0
          [] p = "distinct" -> t
          [] p = "unk_top" -> IF t = unk_token_id THEN 2 ELSE IF t = 4 THEN 1 ELSE -1
          [] p = "eos_top" -> IF t = eos_token_id THEN 2 ELSE IF t = 4 THEN 1 ELSE 0
          [] p = "peaked" -> IF t = 4 THEN 200 ELSE 0)]

\* the patterns drawn in iteration n (from 0) of the handler's loop: every
\* pattern in the first MaxNewTokens iterations, the one-token pattern later
StepPatterns(n) == IF n < MaxNewTokens THEN LogitPatterns ELSE {"peaked"}

\* temperatures float() can return: negative, zero, positive, inf, nan
Temperatures == {Fin(-1), Fin(0), Fin(1), PosInf, NaN}
TopKs == {0, 1, 2, 9}

\* IEEE division of a logit by the temperature
DivByTemperature(a, T) ==
    IF a.k = "nan" \/ T.k = "nan" THEN NaN
    ELSE IF T.k = "pinf" THEN (IF a.k = "fin" THEN Fin(0) ELSE NaN)
    ELSE IF T.v = 0
         THEN (IF a.k = "fin"
               THEN (IF a.v > 0 THEN PosInf ELSE IF a.v < 0 THEN NegInf ELSE NaN)
               ELSE a)
    ELSE IF T.v > 0
         THEN (IF a.k = "fin" THEN Fin(a.v \div T.v) ELSE a)
    ELSE (IF a.k = "fin" THEN Fin((0 - a.v) \div (0 - T.v))
          ELSE IF a.k = "ninf" THEN PosInf ELSE NegInf)

ApplyTemperature(lg, T) == [t \in DOMAIN lg |-> DivByTemperature(lg[t], T)]

\* a variant of BlockUnk that leaves the UNK logit as the model gave it
KeepUnk(lg) == lg

\* next_token_logits[tokenizer.unk_token_id] = -float('inf')
BlockUnk(lg) == [lg EXCEPT ![unk_token_id] = NegInf]

\* the order torch.topk sorts by: NaN above +inf above finite above -inf
OrdClass(a) == CASE a.k = "ninf" -> 0 [] a.k = "fin" -> 1 [] a.k = "pinf" -> 2 [] a.k = "nan" -> 3
Above(a, b) == \/ OrdClass(a) > OrdClass(b)
               \/ OrdClass(a) = OrdClass(b) /\ a.k = "fin" /\ a.v > b.v

\* torch.topk(lg, k) raises when k exceeds the size of the tensor
TopKRaises(lg, k) == k > Cardinality(DOMAIN lg)

\* torch.topk(lg, k)[0][-1]: the k-th largest value
KthLargest(lg, k) ==
    CHOOSE v \in Range(lg) :
        /\ Cardinality({t \in DOMAIN lg : Above(lg[t], v)}) < k
        /\ Cardinality({t \in DOMAIN lg : ~Above(v, lg[t])}) >= k

\* a variant of TopKFilter that filters nothing
TopKFilterOff(lg, k) == lg

\* lines 144-147 of the handler, 130-132 of generate: every entry strictly
\* below the k-th largest value becomes -inf
TopKFilter(lg, k) ==
    IF k > 0
    THEN LET min_value == KthLargest(lg, k)
         IN  [t \in DOMAIN lg |-> IF ExtLess(lg[t], min_value) THEN NegInf ELSE lg[t]]
    ELSE lg

\* torch.multinomial(probs, 1) on the CPU raises on a NaN, inf or negative
\* entry and on a zero sum; otherwise it returns an index of non-zero
\* probability
MultinomialRaises(probs) ==
    \/ \E t \in DOMAIN probs : probs[t].nan
    \/ \A t \in DOMAIN probs : probs[t].num = 0
MultinomialSupport(probs) == {t \in DOMAIN probs : ~probs[t].nan /\ probs[t].num > 0}

\* PositionalEncoding.forward adds pe[:, :seq_len], which has at most
\* max_seq_length rows: a longer sequence raises the shape error
ForwardRaises(seq) == Len(seq) > max_seq_length

(***************************************************************************)
(* SimpleTransformer.generate                                              *)
(***************************************************************************)
LongIds == [i \in 1..max_seq_length |-> 4]
GeneratePrompts == {<<4>>, <<2, 4>>, <<2, 4, 3>>, LongIds}
NoToken == 0 - 1
NoResult == [returned |-> FALSE, ids |-> <<>>, text |-> <<>>]

\* a variant of BreaksOnEos that ignores whether a tokenizer was passed
BreaksOnEosWithoutTokenizer(tok, has_tokenizer) == tok = eos_token_id

\* line 143: break on EOS, only when a tokenizer was passed
BreaksOnEos(tok, has_tokenizer) == has_tokenizer /\ tok = eos_token_id

\* the logits generate samples from (lines 127-132)
GenerateStepLogits(raw, T, k) == TopKFilter(ApplyTemperature(raw, T), k)

GenInit ==
    /\ g_prompt = <<>> /\ g_n = 0 /\ max_length = 0
    /\ g_temperature = Fin(1) /\ g_top_k = 0 /\ g_tokenizer = FALSE
    /\ g_i = 0 /\ g_next_token = NoToken /\ g_result = NoResult
    /\ gpc = "idle"

\* model.generate(prompt, max_length, temperature, top_k, tokenizer) with a
\* list of token ids as the prompt
GenerateCall ==
    /\ gpc = "idle"
    /\ \E p \in GeneratePrompts : g_prompt' = p /\ g_n' = Len(p)
    /\ \E m \in 0..MaxNewTokens : max_length' = m
    /\ \E T \in Temperatures : g_temperature' = T
    /\ \E k \in TopKs : g_top_k' = k
    /\ \E tk \in BOOLEAN : g_tokenizer' = tk
    /\ g_i' = 0 /\ g_next_token' = NoToken /\ g_result' = NoResult
    /\ gpc' = "loop"
    /\ UNCHANGED genOthers

\* one iteration of the loop of lines 122-144
GenerateStep ==
    /\ gpc = "loop" /\ g_i < max_length
    /\ \E p \in LogitPatterns :
          LET scaled == ApplyTemperature(Logits(p), g_temperature)
              raises == \/ ForwardRaises(g_prompt)
                        \/ g_top_k > 0 /\ TopKRaises(scaled, g_top_k)
              probs == Softmax(GenerateStepLogits(Logits(p), g_temperature, g_top_k))
          IN  IF raises \/ MultinomialRaises(probs)
              THEN /\ gpc' = "raised"
                   /\ UNCHANGED <<g_prompt, g_i, g_next_token, g_result>>
              ELSE \E tok \in MultinomialSupport(probs) :
                      /\ g_prompt' = Append(g_prompt, tok)
                      /\ g_next_token' = tok
                      /\ g_i' = g_i + 1
                      /\ IF BreaksOnEos(tok, g_tokenizer) \/ g_i + 1 >= max_length
                         THEN /\ gpc' = "returned"
                              /\ g_result' = [returned |-> TRUE,
                                              ids |-> Append(g_prompt, tok),
                                              text |-> IF g_tokenizer
                                                       THEN Decode(LoadedIdxToWord,
                                                                   Append(g_prompt, tok), TRUE)
                                                       ELSE <<>>]
                         ELSE /\ gpc' = "loop"
                              /\ UNCHANGED g_result
    /\ UNCHANGED <<g_n, max_length, g_temperature, g_top_k, g_tokenizer>>
    /\ UNCHANGED genOthers

\* range(max_length) is empty: the prompt is returned as it came
GenerateNothing ==
    /\ gpc = "loop" /\ g_i = 0 /\ max_length <= 0
    /\ gpc' = "returned"
    /\ g_result' = [returned |-> TRUE, ids |-> g_prompt,
                    text |-> IF g_tokenizer
                             THEN Decode(LoadedIdxToWord, g_prompt, TRUE) ELSE <<>>]
    /\ UNCHANGED <<g_prompt, g_n, max_length, g_temperature, g_top_k, g_tokenizer,
                   g_i, g_next_token>>
    /\ UNCHANGED genOthers

GenNext == GenerateCall \/ GenerateStep \/ GenerateNothing

(***************************************************************************)
(* generate_text/main.py: load_model and lambda_handler                    *)
(***************************************************************************)
\* how far load_model gets before it raises, or "ok"
MaxLoads == 2     \* most load_model calls in one process
LoadOutcomes == {"download_fails", "torch_load_fails", "load_state_dict_fails",
                 "eval_fails", "tokenizer_load_fails", "ok"}

\* the global model after load_model ended with outcome o: untouched before
\* line 52, the freshly constructed module when load_state_dict raises, the
\* unpickled checkpoint when it has no eval(), the loaded module afterwards
ModelAfterLoad(m, o) ==
    CASE o \in {"download_fails", "torch_load_fails"} -> m
      [] o = "load_state_dict_fails" -> "constructed"
      [] o = "eval_fails" -> "checkpoint"
      [] o \in {"tokenizer_load_fails", "ok"} -> "ready"

\* a variant of TokenizerAfterLoad in which the tokenizer is read right after
\* the downloads, before the model is loaded
TokenizerReadFirst(t, o) == IF o = "download_fails" THEN t ELSE "ready"

\* the global tokenizer after load_model ended with outcome o: assigned by
\* the last statement only
TokenizerAfterLoad(t, o) == IF o = "ok" THEN "ready" ELSE t

\* whether a load_model call with outcome o reached the assignment of the
\* global model (line 52 or 63), of the global tokenizer (line 70)
ModelAssigned(o) == o \notin {"download_fails", "torch_load_fails"}
TokenizerAssigned(o) == TokenizerAfterLoad("None", o) # "None"

\* a variant of LoadRaises in which a failed step goes unnoticed
LoadNeverRaises(o) == FALSE

\* load_model raised: the except clause of lines 82-93 is taken
LoadRaises(o) == o # "ok"

\* a variant of NeedsLoad that loads only when both globals are None
NeedsLoadBoth(m, t) == m = "None" /\ t = "None"

\* line 79: if model is None or tokenizer is None
NeedsLoad(m, t) == m = "None" \/ t = "None"

\* the request body: body_ok is FALSE when json.loads raises or the value
\* has no get(); a field that float()/int() cannot convert has ok = FALSE
NotAString == <<"<not a str>">>
LongText == [i \in 1..(2 * (max_seq_length - 2) - 1) |-> IF i % 2 = 1 THEN "a" ELSE " "]
Prompts == {<<>>, <<"a">>, <<"B", ",">>, LongText, NotAString}
Raw(v) == [ok |-> TRUE, v |-> v]
\* the keys of the body the handler reads, and the key the Streamlit client
\* sends for the token budget (app.py 134, 157, 615)
HandlerKeys == {"prompt", "temperature", "max_tokens", "top_k"}
ClientKeys == {"prompt", "temperature", "max_length", "top_k"}
\* body.get(key, default) of lines 98-101
DefaultPrompt == <<"O", "n", "c", "e", " ", "u", "p", "o", "n", " ", "a", " ",
                   "t", "i", "m", "e">>
DefaultTemperature == Fin(1)
DefaultMaxTokens == 50
DefaultTopK == 50
Unconvertible == [ok |-> FALSE, v |-> 0]
TokenBudgets == {0 - 5} \cup 0..MaxNewTokens
GoodEvents ==
    [body_ok : {TRUE}, keys : {HandlerKeys}, max_length : {Raw(0)}, prompt : Prompts,
     temperature : {[ok |-> TRUE, v |-> T] : T \in Temperatures},
     max_tokens : {Raw(n) : n \in TokenBudgets},
     top_k : {Raw(k) : k \in TopKs}]
NominalEvent == [body_ok |-> TRUE, keys |-> HandlerKeys, max_length |-> Raw(0),
                 prompt |-> <<"a">>,
                 temperature |-> [ok |-> TRUE, v |-> Fin(1)],
                 max_tokens |-> Raw(1), top_k |-> Raw(2)]
BadEvents ==
    {[NominalEvent EXCEPT !.body_ok = FALSE],
     [NominalEvent EXCEPT !.temperature = [ok |-> FALSE, v |-> NaN]],
     [NominalEvent EXCEPT !.max_tokens = Unconvertible],
     [NominalEvent EXCEPT !.top_k = Unconvertible]}
\* the payload of the Streamlit generation page: max_length, no max_tokens
ClientEvents ==
    {[NominalEvent EXCEPT !.keys = ClientKeys, !.max_length = Raw(n)] : n \in 0..1}
Events == GoodEvents \cup BadEvents \cup ClientEvents

\* a variant of ParseRaises that notices only a body that is not JSON
ParseRaisesOnBodyOnly(ev) == ~ev.body_ok

\* lines 96-101 raise
ParseRaises(ev) ==
    \/ ~ev.body_ok
    \/ "temperature" \in ev.keys /\ ~ev.temperature.ok
    \/ "max_tokens" \in ev.keys /\ ~ev.max_tokens.ok
    \/ "top_k" \in ev.keys /\ ~ev.top_k.ok

\* what the handler returns; a handler that falls off its end returns None.
\* body is the set of keys of the JSON body, generated_text the value under
\* that key and settings the value under 'settings' (<<>>: no such value)
NoResponse == [returned |-> "nothing", statusCode |-> 0, body |-> {},
               generated_text |-> <<>>, settings |-> <<>>]
ReturnsNone == [returned |-> "None", statusCode |-> 0, body |-> {},
                generated_text |-> <<>>, settings |-> <<>>]
ErrorResponse(code) == [returned |-> "dict", statusCode |-> code, body |-> {"error"},
                        generated_text |-> <<>>, settings |-> <<>>]
Success(txt) == [returned |-> "dict", statusCode |-> 200,
                 body |-> {"generated_text", "prompt"}, generated_text |-> txt,
                 settings |-> <<>>]

\* the except clause of lines 173-176 prints the error and ends: no return
GenerationFailed == ReturnsNone

NoLogits == [t \in VocabIds |-> NaN]

\* the logits the handler samples from (lines 135-147)
HandlerStepLogits(raw, T, k) == TopKFilter(ApplyTemperature(BlockUnk(raw), T), k)

HandlerInit ==
    /\ model = "None" /\ tokenizer = "None"
    /\ loads = <<>> /\ model_from = 0 /\ tokenizer_from = 0
    /\ event = NominalEvent /\ load_called = FALSE
    /\ prompt = <<>> /\ temperature = Fin(1) /\ max_tokens = 0 /\ top_k = 0
    /\ output_tensor = <<>> /\ n_appended = 0
    /\ logits = NoLogits /\ next_token_logits = NoLogits /\ next_token = NoToken
    /\ response = NoResponse
    /\ hpc = "idle"

ResetLocals ==
    /\ prompt' = <<>> /\ temperature' = Fin(1) /\ max_tokens' = 0 /\ top_k' = 0
    /\ output_tensor' = <<>> /\ n_appended' = 0
    /\ logits' = NoLogits /\ next_token_logits' = NoLogits /\ next_token' = NoToken

\* lambda_handler(event, context), lines 78-93: entry and, when needed,
\* load_model
Invoke ==
    /\ hpc = "idle"
    /\ \E ev \in Events : event' = ev
    /\ ResetLocals
    /\ IF NeedsLoad(model, tokenizer)
       THEN \E o \in LoadOutcomes :
               /\ Len(loads) < MaxLoads
               /\ load_called' = TRUE
               /\ loads' = Append(loads, o)
               /\ model' = ModelAfterLoad(model, o)
               /\ tokenizer' = TokenizerAfterLoad(tokenizer, o)
               /\ model_from' = IF ModelAssigned(o) THEN Len(loads) + 1 ELSE model_from
               /\ tokenizer_from' = IF TokenizerAssigned(o) THEN Len(loads) + 1
                                    ELSE tokenizer_from
               /\ IF LoadRaises(o)
                  THEN hpc' = "returned" /\ response' = ErrorResponse(500)
                  ELSE hpc' = "parse" /\ response' = NoResponse
       ELSE /\ load_called' = FALSE
            /\ hpc' = "parse" /\ response' = NoResponse
            /\ UNCHANGED globals
    /\ UNCHANGED hOthers

\* lines 95-116: parse the request
ParseRequest ==
    /\ hpc = "parse"
    /\ IF ParseRaises(event)
       THEN /\ response' = ErrorResponse(400)
            /\ hpc' = "returned"
            /\ UNCHANGED locals
       ELSE /\ prompt' = IF "prompt" \in event.keys THEN event.prompt ELSE DefaultPrompt
            /\ temperature' = IF "temperature" \in event.keys
                              THEN event.temperature.v ELSE DefaultTemperature
            /\ max_tokens' = IF "max_tokens" \in event.keys
                             THEN event.max_tokens.v ELSE DefaultMaxTokens
            /\ top_k' = IF "top_k" \in event.keys THEN event.top_k.v ELSE DefaultTopK
            /\ hpc' = "encode"
            /\ UNCHANGED <<output_tensor, n_appended, logits, next_token_logits,
                           next_token, response>>
    /\ UNCHANGED <<globals, event, load_called>>
    /\ UNCHANGED hOthers

\* lines 120-127: tokenizer.encode(prompt); str.lower exists on a str only
EncodePrompt ==
    /\ hpc = "encode"
    /\ IF prompt = NotAString
       THEN /\ response' = GenerationFailed
            /\ hpc' = "returned"
            /\ UNCHANGED output_tensor
       ELSE /\ output_tensor' = Encode(LoadedWordToIdx, prompt, TRUE)
            /\ hpc' = "loop"
            /\ UNCHANGED response
    /\ UNCHANGED <<globals, event, load_called, prompt, temperature, max_tokens,
                   top_k, n_appended, logits, next_token_logits, next_token>>
    /\ UNCHANGED hOthers

\* one iteration of the loop of lines 130-154
SampleStep ==
    /\ hpc = "loop" /\ n_appended < max_tokens
    /\ \E p \in StepPatterns(n_appended) :
          LET raw == Logits(p)
              scaled == ApplyTemperature(BlockUnk(raw), temperature)
              filtered == HandlerStepLogits(raw, temperature, top_k)
              probs == Softmax(filtered)
          IN  IF ForwardRaises(output_tensor)
              THEN /\ response' = GenerationFailed
                   /\ hpc' = "returned"
                   /\ UNCHANGED <<output_tensor, n_appended, logits,
                                  next_token_logits, next_token>>
              ELSE IF (top_k > 0 /\ TopKRaises(scaled, top_k)) \/ MultinomialRaises(probs)
              THEN /\ response' = GenerationFailed
                   /\ hpc' = "returned"
                   /\ logits' = raw
                   /\ UNCHANGED <<output_tensor, n_appended, next_token_logits, next_token>>
              ELSE \E tok \in MultinomialSupport(probs) :
                      /\ output_tensor' = Append(output_tensor, tok)
                      /\ n_appended' = n_appended + 1
                      /\ logits' = raw
                      /\ next_token_logits' = filtered
                      /\ next_token' = tok
                      /\ UNCHANGED <<response, hpc>>
    /\ UNCHANGED <<globals, event, load_called, prompt, temperature, max_tokens, top_k>>
    /\ UNCHANGED hOthers

\* lines 156-172: the loop is over; decode and return
ReturnText ==
    /\ hpc = "loop" /\ n_appended >= max_tokens
    /\ response' = Success(Decode(LoadedIdxToWord, output_tensor, TRUE))
    /\ hpc' = "returned"
    /\ UNCHANGED <<globals, event, load_called, locals>>
    /\ UNCHANGED hOthers

\* the runtime takes the returned value; the frame of the invocation is
\* gone and the process, with its globals, waits for the next event
Deliver ==
    /\ hpc = "returned"
    /\ event' = NominalEvent /\ load_called' = FALSE
    /\ ResetLocals
    /\ response' = NoResponse
    /\ hpc' = "idle"
    /\ UNCHANGED globals
    /\ UNCHANGED hOthers

HandlerNext ==
    Invoke \/ ParseRequest \/ EncodePrompt \/ SampleStep \/ ReturnText \/ Deliver

(***************************************************************************)
(* visualize_attention/main.py: visualize_attention and lambda_handler     *)
(* (load_model, lines 36-80, is the load_model of generate_text/main.py)   *)
(***************************************************************************)
\* the configuration load_model builds the model with (lines 61-69)
n_layers == 4
n_heads == 8

\* the request body: keys is the set of keys it holds
Warmup == <<"w", "a", "r", "m", "u", "p">>
VisTexts == {Warmup, <<"a">>, <<>>, LongText, NotAString}
\* body.get('head_idx', None): the key is absent or null
None == [ok |-> TRUE, v |-> 0, none |-> TRUE]
Index(v) == [ok |-> TRUE, v |-> v, none |-> FALSE]
NotAnIndex == [ok |-> FALSE, v |-> 0, none |-> FALSE]
\* the keys the handler reads (lines 193-195), the keys the Streamlit page
\* sends (app.py 751-755) and the keys of its warm-up request (app.py 158)
VisHandlerKeys == {"text", "layer_idx", "head_idx"}
VisPageKeys == {"text", "layer", "heads"}
VisWarmupKeys == {"text", "layer", "head"}
VisNominalEvent ==
    [body_ok |-> TRUE, keys |-> VisHandlerKeys, text |-> <<"a">>,
     layer_idx |-> Index(0), head_idx |-> None,
     layer |-> 0, head |-> 0, heads |-> {}]
LayerIdxValues == {Index(l) : l \in {0 - n_layers - 1, 0 - n_layers, 0 - 1, 0, 1,
                                     n_layers - 1, n_layers}}
                  \cup {NotAnIndex}
HeadIdxValues == {Index(h) : h \in {0 - n_heads - 1, 0 - 1, 0, n_heads - 1, n_heads}}
                 \cup {None, NotAnIndex}
HeadLists == {{0}, {0, 1}, {0, 1, 2, 3}, 0..(n_heads - 1), {n_heads + 12}}
VisHandlerEvents ==
    {[VisNominalEvent EXCEPT !.text = t, !.layer_idx = l, !.head_idx = h] :
        t \in VisTexts, l \in LayerIdxValues, h \in HeadIdxValues}
VisPageEvents ==
    {[VisNominalEvent EXCEPT !.keys = VisPageKeys, !.text = t, !.layer = l, !.heads = hs] :
        t \in VisTexts, l \in {0 - 1, 0, n_layers - 1, n_layers + 6}, hs \in HeadLists}
VisWarmupEvents ==
    {[VisNominalEvent EXCEPT !.keys = VisWarmupKeys, !.text = t, !.layer = l, !.head = h] :
        t \in VisTexts, l \in 0..(n_layers - 1), h \in {0, n_heads - 1}}
VisBadEvents == {[VisNominalEvent EXCEPT !.body_ok = FALSE]}
VisEvents == VisHandlerEvents \cup VisPageEvents \cup VisWarmupEvents \cup VisBadEvents

\* lines 192-197 raise: the body is not JSON, or int() rejects a value
VisParseRaises(ev) ==
    \/ ~ev.body_ok
    \/ "layer_idx" \in ev.keys /\ ~ev.layer_idx.ok
    \/ "head_idx" \in ev.keys /\ ~ev.head_idx.ok

\* a[i] on a Python list or a numpy axis of length n: i in -n..n-1, a
\* negative i counting from the end; anything else raises IndexError
IndexRaises(i, n) == i < 0 - n \/ i >= n
IndexOf(i, n) == IF i < 0 THEN i + n ELSE i

\* what the handler returns.  body is the set of keys of the JSON body,
\* tokens the value under 'tokens', status the value under 'status' ("": no
\* such value), images the number of base64 images in the body, layer and
\* heads the layer and the heads the uploaded figure was drawn from
VisNoResponse == [returned |-> "nothing", statusCode |-> 0, body |-> {},
                  tokens |-> <<>>, status |-> "", images |-> 0,
                  layer |-> 0 - 1, heads |-> {}]
VisErrorResponse(code, keys) ==
    [returned |-> "dict", statusCode |-> code, body |-> keys,
     tokens |-> <<>>, status |-> "", images |-> 0,
     layer |-> 0 - 1, heads |-> {}]
VisSuccess(toks, l, hs) ==
    [returned |-> "dict", statusCode |-> 200, body |-> {"tokens", "visualization_url"},
     tokens |-> toks, status |-> "", images |-> 0,
     layer |-> l, heads |-> hs]

\* line 96: tokens = [tokenizer.idx_to_word.get(idx, '<UNK>') for idx in input_ids]
TokenStrings(i2w, is) ==
    [n \in 1..Len(is) |-> IF is[n] \in DOMAIN i2w THEN i2w[is[n]] ELSE UNK]

\* lines 102-147: one head when head_idx is not None, else the grid of all
RenderedHeads(h) == IF h.none THEN 0..(n_heads - 1) ELSE {IndexOf(h.v, n_heads)}

\* visualize_attention(text, layer_idx, head_idx) raises (lines 88-160)
VisualizeRaises(t, l, h, upload_ok) ==
    \/ t = NotAString
    \/ ForwardRaises(Encode(LoadedWordToIdx, t, TRUE))
    \/ IndexRaises(l, n_layers)
    \/ ~h.none /\ IndexRaises(h.v, n_heads)
    \/ ~upload_ok

VisInit ==
    /\ v_model = "None" /\ v_tokenizer = "None"
    /\ v_loads = <<>> /\ v_model_from = 0 /\ v_tokenizer_from = 0
    /\ v_event = VisNominalEvent /\ v_load_called = FALSE
    /\ v_text = <<>> /\ layer_idx = 0 /\ head_idx = None
    /\ v_response = VisNoResponse
    /\ vpc = "idle"

VisResetLocals == v_text' = <<>> /\ layer_idx' = 0 /\ head_idx' = None

\* lambda_handler(event, context), lines 173-188: entry and, when needed,
\* load_model
VisInvoke ==
    /\ vpc = "idle"
    /\ \E ev \in VisEvents : v_event' = ev
    /\ VisResetLocals
    /\ IF NeedsLoad(v_model, v_tokenizer)
       THEN \E o \in LoadOutcomes :
               /\ Len(v_loads) < MaxLoads
               /\ v_load_called' = TRUE
               /\ v_loads' = Append(v_loads, o)
               /\ v_model' = ModelAfterLoad(v_model, o)
               /\ v_tokenizer' = TokenizerAfterLoad(v_tokenizer, o)
               /\ v_model_from' = IF ModelAssigned(o) THEN Len(v_loads) + 1
                                  ELSE v_model_from
               /\ v_tokenizer_from' = IF TokenizerAssigned(o) THEN Len(v_loads) + 1
                                      ELSE v_tokenizer_from
               /\ IF LoadRaises(o)
                  THEN vpc' = "returned" /\ v_response' = VisErrorResponse(500, {"error"})
                  ELSE vpc' = "parse" /\ v_response' = VisNoResponse
       ELSE /\ v_load_called' = FALSE
            /\ vpc' = "parse" /\ v_response' = VisNoResponse
            /\ UNCHANGED v_globals
    /\ UNCHANGED visOthers

\* lines 190-211: parse the request
VisParseRequest ==
    /\ vpc = "parse"
    /\ IF VisParseRaises(v_event)
       THEN /\ v_response' = VisErrorResponse(400, {"error"})
            /\ vpc' = "returned"
            /\ UNCHANGED v_locals
       ELSE /\ v_text' = v_event.text
            /\ layer_idx' = IF "layer_idx" \in v_event.keys THEN v_event.layer_idx.v ELSE 0
            /\ head_idx' = IF "head_idx" \in v_event.keys THEN v_event.head_idx ELSE None
            /\ vpc' = "visualize"
            /\ UNCHANGED v_response
    /\ UNCHANGED <<v_globals, v_event, v_load_called>>
    /\ UNCHANGED visOthers

\* lines 213-245: visualize_attention and the response
Visualize ==
    /\ vpc = "visualize"
    /\ \E upload_ok \in BOOLEAN :
          IF VisualizeRaises(v_text, layer_idx, head_idx, upload_ok)
          THEN v_response' = VisErrorResponse(500, {"error", "traceback"})
          ELSE v_response' =
                  VisSuccess(TokenStrings(LoadedIdxToWord, Encode(LoadedWordToIdx, v_text, TRUE)),
                             IndexOf(layer_idx, n_layers), RenderedHeads(head_idx))
    /\ vpc' = "returned"
    /\ UNCHANGED <<v_globals, v_event, v_load_called, v_locals>>
    /\ UNCHANGED visOthers

\* the runtime takes the returned value and the process waits for the next
\* event
VisDeliver ==
    /\ vpc = "returned"
    /\ v_event' = VisNominalEvent /\ v_load_called' = FALSE
    /\ VisResetLocals
    /\ v_response' = VisNoResponse
    /\ vpc' = "idle"
    /\ UNCHANGED v_globals
    /\ UNCHANGED visOthers

VisNext == VisInvoke \/ VisParseRequest \/ Visualize \/ VisDeliver

(***************************************************************************)
(* The constructors: MultiHeadAttention (attention.py), EncoderLayer and   *)
(* TransformerEncoder (encoder.py), SimpleTransformer (transformer.py)     *)
(***************************************************************************)
MaxDModel == 6

\* the arguments drawn: d_model from 2, n_heads of either sign and 0,
\* n_layers from -1, dropout a probability or not; vocab_size, d_ff and
\* max_seq_length are taken positive
DModels == 2..MaxDModel
HeadCounts == (0 - 2)..MaxDModel
LayerCounts == (0 - 1)..2
ConstructorArgs ==
    [d_model : DModels, n_heads : HeadCounts, n_layers : LayerCounts,
     dropout_ok : BOOLEAN]

\* Python's a % n and a // n for n # 0: the remainder has the sign of n
PyMod(a, n) == IF n > 0 THEN a % n ELSE 0 - ((0 - a) % (0 - n))
PyFloorDiv(a, n) == IF n > 0 THEN a \div n ELSE (0 - a) \div (0 - n)

NoObject == [status |-> "none", error |-> "", d_k |-> 0, d_v |-> 0, n_attention |-> 0]
Raised(e) == [status |-> "raised", error |-> e, d_k |-> 0, d_v |-> 0, n_attention |-> 0]
Constructed(dk, dv, n) ==
    [status |-> "object", error |-> "", d_k |-> dk, d_v |-> dv, n_attention |-> n]

\* a variant of NotDivisible that lets every pair through
NotDivisibleNever(d, n) == FALSE

\* attention.py line 59: d_model % n_heads != 0
NotDivisible(d, n) == PyMod(d, n) # 0

\* MultiHeadAttention.__init__ (attention.py 55-76): the modulus by 0 is a
\* ZeroDivisionError, nn.Dropout rejects a p outside [0, 1]
MultiHeadAttentionInit(a) ==
    IF a.n_heads = 0 THEN Raised("ZeroDivisionError")
    ELSE IF NotDivisible(a.d_model, a.n_heads) THEN Raised("ValueError")
    ELSE IF ~a.dropout_ok THEN Raised("ValueError")
    ELSE Constructed(PyFloorDiv(a.d_model, a.n_heads), PyFloorDiv(a.d_model, a.n_heads), 1)

\* EncoderLayer.__init__ (encoder.py 49-52): the attention, then the
\* feed-forward block
EncoderLayerInit(a) == MultiHeadAttentionInit(a)

\* TransformerEncoder.__init__ (encoder.py 79-83): range(n_layers) layers,
\* none when n_layers <= 0
TransformerEncoderInit(a) ==
    IF a.n_layers <= 0 THEN Constructed(0, 0, 0)
    ELSE LET layer == EncoderLayerInit(a)
         IN  IF layer.status = "raised" THEN layer
             ELSE Constructed(layer.d_k, layer.d_v, a.n_layers)

\* PositionalEncoding.__init__ (embedding.py 10-26): nn.Dropout first; with
\* an odd d_model >= 3 the cosine columns do not fit pe[:, 1::2]
PositionalEncodingRaises(a) == ~a.dropout_ok \/ (a.d_model % 2 = 1 /\ a.d_model >= 3)

\* SimpleTransformer.__init__ (transformer.py 29-46): embedding, encoder,
\* head
SimpleTransformerInit(a) ==
    IF ~a.dropout_ok THEN Raised("ValueError")
    ELSE IF PositionalEncodingRaises(a) THEN Raised("RuntimeError")
    ELSE TransformerEncoderInit(a)

ConInit ==
    /\ c_class = "none"
    /\ c_args = [d_model |-> 2, n_heads |-> 1, n_layers |-> 1, dropout_ok |-> TRUE]
    /\ c_object = NoObject
    /\ cpc = "idle"

NewMultiHeadAttention ==
    /\ cpc = "idle"
    /\ \E a \in ConstructorArgs :
          /\ a.n_layers = 1
          /\ c_args' = a
          /\ c_object' = MultiHeadAttentionInit(a)
    /\ c_class' = "MultiHeadAttention"
    /\ cpc' = "done"
    /\ UNCHANGED conOthers

NewEncoderLayer ==
    /\ cpc = "idle"
    /\ \E a \in ConstructorArgs :
          /\ a.n_layers = 1
          /\ c_args' = a
          /\ c_object' = EncoderLayerInit(a)
    /\ c_class' = "EncoderLayer"
    /\ cpc' = "done"
    /\ UNCHANGED conOthers

NewTransformerEncoder ==
    /\ cpc = "idle"
    /\ \E a \in ConstructorArgs :
          /\ c_args' = a
          /\ c_object' = TransformerEncoderInit(a)
    /\ c_class' = "TransformerEncoder"
    /\ cpc' = "done"
    /\ UNCHANGED conOthers

NewSimpleTransformer ==
    /\ cpc = "idle"
    /\ \E a \in ConstructorArgs :
          /\ c_args' = a
          /\ c_object' = SimpleTransformerInit(a)
    /\ c_class' = "SimpleTransformer"
    /\ cpc' = "done"
    /\ UNCHANGED conOthers

\* the caller is done with the object or the exception
Release ==
    /\ cpc = "done"
    /\ c_class' = "none"
    /\ c_args' = [d_model |-> 2, n_heads |-> 1, n_layers |-> 1, dropout_ok |-> TRUE]
    /\ c_object' = NoObject
    /\ cpc' = "idle"
    /\ UNCHANGED conOthers

ConNext ==
    \/ NewMultiHeadAttention \/ NewEncoderLayer \/ NewTransformerEncoder
    \/ NewSimpleTransformer \/ Release

(***************************************************************************)
(* The cost-drift run (tests/regression/test_cost_drift_analysis.py)       *)
(***************************************************************************)
MaxDays == 8      \* most daily totals returned by the cost query

\* what Cost Explorer returned: the daily totals, oldest first, and whether
\* float() accepts every 'Amount'
DailyCosts == {1, 4}
CostData == {[costs |-> c, amounts_ok |-> ok] :
                c \in UNION {[1..n -> DailyCosts] : n \in 0..MaxDays}, ok \in BOOLEAN}

\* a message is a sequence of words
AlertPhrase == <<"COST", "DRIFT", "ALERT">>
DriftMessage == <<"Cost", "drift", "detected:">>
ValueErrorMessage == <<"could", "not", "convert", "string", "to", "float:">>
NoException == [raised |-> FALSE, type |-> "", message |-> <<>>]
Exception(t, m) == [raised |-> TRUE, type |-> t, message |-> m]

\* needle in str(e)
Contains(message, needle) ==
    \E i \in 0..(Len(message) - Len(needle)) :
        SubSeq(message, i + 1, i + Len(needle)) = needle

\* costs[a:b] with negative a and b, as Python slices it
Slice(costs, a, b) ==
    LET n == Len(costs)
        lo == IF n + a < 0 THEN 0 ELSE n + a
        hi == IF n + b < 0 THEN 0 ELSE n + b
    IN  SubSeq(costs, lo + 1, hi)

\* CostDriftAnalyzer.analyze_cost_trends: what it raises.  recent_avg >
\* earlier_avg * 1.5 is compared exactly, as 2 * sum(recent) > 3 * sum(earlier)
AnalyzeCostTrends(data) ==
    IF data.costs = <<>> THEN NoException
    ELSE IF ~data.amounts_ok THEN Exception("ValueError", ValueErrorMessage)
    ELSE IF /\ Len(data.costs) >= 7
            /\ 2 * SumSeq(Slice(data.costs, 0 - 3, 0))
                 > 3 * SumSeq(Slice(data.costs, 0 - 7, 0 - 4))
         THEN Exception("AssertionError", DriftMessage)
         ELSE NoException

NotExited == 0 - 1

CdInit ==
    /\ cost_data = [costs |-> <<>>, amounts_ok |-> TRUE]
    /\ cd_exception = NoException
    /\ exit_status = NotExited
    /\ cdpc = "idle"

\* main up to the try block
StartRun ==
    /\ cdpc = "idle"
    /\ \E data \in CostData : cost_data' = data
    /\ cdpc' = "try"
    /\ UNCHANGED <<cd_exception, exit_status>>
    /\ UNCHANGED cdOthers

\* analyzer.analyze_cost_trends()
AnalyzeStep ==
    /\ cdpc = "try"
    /\ cd_exception' = AnalyzeCostTrends(cost_data)
    /\ cdpc' = IF AnalyzeCostTrends(cost_data).raised THEN "except" ELSE "checks"
    /\ UNCHANGED <<cost_data, exit_status>>
    /\ UNCHANGED cdOthers

\* the three remaining steps of the try block; each catches its own errors
OtherChecks ==
    /\ cdpc = "checks"
    /\ cdpc' = "end"
    /\ UNCHANGED <<cost_data, cd_exception, exit_status>>
    /\ UNCHANGED cdOthers

\* except Exception as e: exit(1) only when "COST DRIFT ALERT" in str(e)
HandleException ==
    /\ cdpc = "except"
    /\ IF Contains(cd_exception.message, AlertPhrase)
       THEN exit_status' = 1 /\ cdpc' = "exited"
       ELSE exit_status' = exit_status /\ cdpc' = "end"
    /\ UNCHANGED <<cost_data, cd_exception>>
    /\ UNCHANGED cdOthers

\* main returns and the interpreter exits with status 0
ReturnFromMain ==
    /\ cdpc = "end"
    /\ exit_status' = 0
    /\ cdpc' = "exited"
    /\ UNCHANGED <<cost_data, cd_exception>>
    /\ UNCHANGED cdOthers

\* the next scheduled run
NextRun ==
    /\ cdpc = "exited"
    /\ cost_data' = [costs |-> <<>>, amounts_ok |-> TRUE]
    /\ cd_exception' = NoException
    /\ exit_status' = NotExited
    /\ cdpc' = "idle"
    /\ UNCHANGED cdOthers

CdNext ==
    \/ StartRun \/ AnalyzeStep \/ OtherChecks \/ HandleException
    \/ ReturnFromMain \/ NextRun

(***************************************************************************)
(* call_api and its callers (streamlit/app.py)                             *)
(***************************************************************************)
\* what requests.post does: a response with a status code and a body, or
\* one of the exceptions call_api distinguishes.  A body is a JSON object
\* with keys, one of the falsy JSON values, or no JSON at all; json_error is
\* the class response.json() raises with on such a body (a
\* RequestException subclass in current releases of requests, a ValueError
\* in older ones)
Endpoints == {"GENERATE_ENDPOINT", "VISUALISE_ENDPOINT"}
StatusCodes == {200, 400, 500, 502}
Bodies == {"object", "empty_object", "null", "zero", "not_json"}
PostOutcomes ==
    {[kind |-> "response", status_code |-> c, body |-> b, json_error |-> j] :
        c \in StatusCodes, b \in Bodies, j \in {"RequestException", "ValueError"}}
    \cup {[kind |-> k, status_code |-> 0, body |-> "null", json_error |-> "ValueError"] :
             k \in {"Timeout", "RequestException", "Exception"}}

PyNone == "None"
\* response.json(): JSON null becomes None
JsonValue(b) == IF b = "null" THEN PyNone ELSE b
\* bool(value) as `if result:` takes it
Truthy(v) == v \notin {PyNone, "empty_object", "zero"}

\* a variant of CallApi that hands the body back whatever the status code
CallApiAnyStatus(o) ==
    IF o.kind = "response"
    THEN IF o.body = "not_json"
         THEN <<PyNone, IF o.json_error = "RequestException"
                        THEN "Network error" ELSE "Unexpected error">>
         ELSE <<JsonValue(o.body), PyNone>>
    ELSE <<PyNone, "Network error">>

\* call_api: the pair it returns when requests.post ends with outcome o
CallApi(o) ==
    CASE o.kind = "response" /\ o.status_code = 200 /\ o.body # "not_json" ->
            <<JsonValue(o.body), PyNone>>
      [] o.kind = "response" /\ o.status_code = 200 /\ o.body = "not_json" ->
            <<PyNone, IF o.json_error = "RequestException"
                      THEN "Network error" ELSE "Unexpected error">>
      [] o.kind = "response" /\ o.status_code # 200 -> <<PyNone, "API Error">>
      [] o.kind = "Timeout" -> <<PyNone, "Request timed out">>
      [] o.kind = "RequestException" -> <<PyNone, "Network error">>
      [] o.kind = "Exception" -> <<PyNone, "Unexpected error">>

NoOutcome == [kind |-> "none", status_code |-> 0, body |-> "null", json_error |-> "ValueError"]
NothingShown == [branch |-> "none", message |-> PyNone]

ApiInit ==
    /\ endpoint = "GENERATE_ENDPOINT"
    /\ post_outcome = NoOutcome
    /\ result = PyNone /\ error = PyNone
    /\ shown = NothingShown
    /\ apc = "page"

\* the user presses the button: result, error = call_api(endpoint, payload)
CallApiStep ==
    /\ apc = "page"
    /\ \E e \in Endpoints : endpoint' = e
    /\ \E o \in PostOutcomes :
          /\ post_outcome' = o
          /\ result' = CallApi(o)[1]
          /\ error' = CallApi(o)[2]
    /\ apc' = "returned"
    /\ UNCHANGED shown
    /\ UNCHANGED apiOthers

\* if result: show the result; else: st.error(f"... {error}")
ShowResult ==
    /\ apc = "returned"
    /\ shown' = IF Truthy(result)
                THEN [branch |-> "result", message |-> result]
                ELSE [branch |-> "error", message |-> error]
    /\ apc' = "shown"
    /\ UNCHANGED <<endpoint, post_outcome, result, error>>
    /\ UNCHANGED apiOthers

\* the script is rerun and draws the page again
BackToPage ==
    /\ apc = "shown"
    /\ post_outcome' = NoOutcome
    /\ result' = PyNone /\ error' = PyNone
    /\ shown' = NothingShown
    /\ apc' = "page"
    /\ UNCHANGED endpoint
    /\ UNCHANGED apiOthers

ApiNext == CallApiStep \/ ShowResult \/ BackToPage

(***************************************************************************)
(* check_warmup_status over the reruns of one session (streamlit/app.py)   *)
(***************************************************************************)
MaxReruns == 3    \* most script runs of the session

\* what a health or warm-up request can end with
HealthOutcomes ==
    {o \in PostOutcomes : o.kind # "response"
                            \/ (o.body = "object" /\ o.json_error = "ValueError")}

\* check_models_health: True only for a response with status code 200
CheckModelsHealth(o) == o.kind = "response" /\ o.status_code = 200

\* st.session_state before the first run: neither key is present
EmptySession == [present |-> FALSE, models_status_checked |-> FALSE,
                 models_ready |-> FALSE]

\* a variant of NeedsCheck that checks on every run
NeedsCheckAlways(s) == TRUE

\* line 179: if not st.session_state.models_status_checked
NeedsCheck(s) == ~s.models_status_checked

WarmInit ==
    /\ session_state = EmptySession
    /\ runs = 0
    /\ n_health = 0 /\ n_warmup = 0
    /\ health_200 = FALSE
    /\ models_ready = FALSE
    /\ wpc = "idle"

\* the script starts (first load of the page, or a rerun)
ScriptRun ==
    /\ wpc = "idle"
    /\ runs < MaxReruns
    /\ runs' = runs + 1
    /\ models_ready' = FALSE
    /\ wpc' = "enter"
    /\ UNCHANGED <<session_state, n_health, n_warmup, health_200>>
    /\ UNCHANGED warmOthers

\* lines 175-179 and 215-222: the keys are created when absent; a session
\* that was checked only shows its status and returns models_ready
EnterCheck ==
    /\ wpc = "enter"
    /\ LET s == IF session_state.present THEN session_state
                ELSE [present |-> TRUE, models_status_checked |-> FALSE,
                      models_ready |-> FALSE]
       IN  /\ session_state' = s
           /\ wpc' = IF NeedsCheck(s) THEN "check" ELSE "idle"
    /\ UNCHANGED <<runs, n_health, n_warmup, health_200, models_ready>>
    /\ UNCHANGED warmOthers

\* lines 181-183: the first health check
FirstHealthCheck ==
    /\ wpc = "check"
    /\ \E o \in HealthOutcomes :
          /\ n_health' = n_health + 1
          /\ health_200' = (health_200 \/ (o.kind = "response" /\ o.status_code = 200))
          /\ models_ready' = CheckModelsHealth(o)
          /\ wpc' = IF CheckModelsHealth(o) THEN "passed" ELSE "cold"
    /\ UNCHANGED <<session_state, runs, n_warmup>>
    /\ UNCHANGED warmOthers

\* lines 185-191: the check passed; both flags are set and the script is
\* rerun
MarkReady ==
    /\ wpc = "passed"
    /\ session_state' = [session_state EXCEPT !.models_ready = TRUE,
                                              !.models_status_checked = TRUE]
    /\ wpc' = "idle"
    /\ UNCHANGED <<runs, n_health, n_warmup, health_200, models_ready>>
    /\ UNCHANGED warmOthers

\* lines 196-202: warm_up_lambdas posts to both endpoints and ignores what
\* comes back; the health check is then repeated
WarmUpAndVerify ==
    /\ wpc = "cold"
    /\ n_warmup' = n_warmup + 2
    /\ \E o \in HealthOutcomes :
          /\ n_health' = n_health + 1
          /\ health_200' = (health_200 \/ (o.kind = "response" /\ o.status_code = 200))
          /\ models_ready' = CheckModelsHealth(o)
    /\ wpc' = "verified"
    /\ UNCHANGED <<session_state, runs>>
    /\ UNCHANGED warmOthers

\* lines 204-213: the second health check decides models_ready; the
\* session is marked as checked and the script is rerun
MarkChecked ==
    /\ wpc = "verified"
    /\ session_state' = [session_state EXCEPT
                            !.models_ready = models_ready,
                            !.models_status_checked = TRUE]
    /\ wpc' = "idle"
    /\ UNCHANGED <<runs, n_health, n_warmup, health_200, models_ready>>
    /\ UNCHANGED warmOthers

\* the user touches a widget while the check is running: the run is
\* abandoned where it next reports to the page, the session state stays
Interrupted ==
    /\ wpc \in {"check", "passed", "cold", "verified"}
    /\ wpc' = "idle"
    /\ UNCHANGED <<session_state, runs, n_health, n_warmup, health_200,
                   models_ready>>
    /\ UNCHANGED warmOthers

WarmNext ==
    \/ ScriptRun \/ EnterCheck \/ FirstHealthCheck \/ MarkReady
    \/ WarmUpAndVerify \/ MarkChecked \/ Interrupted

Init == FwdInit /\ TokInit /\ GenInit /\ HandlerInit /\ VisInit /\ ConInit /\ CdInit /\ ApiInit /\ WarmInit
SpecForward == Init /\ [][FwdNext]_vars
SpecTokenizer == Init /\ [][TokNext]_vars
SpecGenerate == Init /\ [][GenNext]_vars
SpecHandler == Init /\ [][HandlerNext]_vars
SpecVisualize == Init /\ [][VisNext]_vars
SpecConstruct == Init /\ [][ConNext]_vars
SpecCostDrift == Init /\ [][CdNext]_vars
SpecCallApi == Init /\ [][ApiNext]_vars
SpecWarmup == Init /\ [][WarmNext]_vars

(***************************************************************************)
(* Claims about the forward pass                                           *)
(***************************************************************************)
Layers == 1..Len(attentions)
Pos == 1..Len(x)
Weight(l, h, i, j) == attentions[l][h][i][j]
IsZero(w) == ~w.nan /\ w.num = 0

\* query row i has a key the combined mask lets through
RowHasKey(i) == \E j \in Pos : CombinedMask(x, mask, i, j)

\* C3 (as stated): with the default mask, for every layer, head and query
\* position i the attention weight on every key position j > i is exactly 0,
\* whatever PAD ids the sequence holds.
C3_FutureKeysZeroAlways ==
    mask.dim = 0 =>
        \A l \in Layers : \A h \in 1..NHeads : \A i \in Pos : \A j \in Pos :
            j > i => IsZero(Weight(l, h, i, j))

\* C3 (amended): with the default mask, for every layer and head and every
\* query position i that has a non-PAD id at some position <= i, the
\* attention weight on every key position j > i is exactly 0.  (A query row
\* whose whole prefix is PAD has every score filled with -1e9 and softmax
\* spreads it uniformly over all keys, future ones included.)
C3_FutureKeysZeroInOpenRows ==
    mask.dim = 0 =>
        \A l \in Layers : \A h \in 1..NHeads : \A i \in Pos : \A j \in Pos :
            (j > i /\ \E p \in 1..i : x[p] # PadId) => IsZero(Weight(l, h, i, j))

\* a finished default-mask pass over a sequence with a PAD id after a
\* non-PAD first token, so that open rows with future and PAD keys exist
C3_Witness ==
    /\ fpc = "done" /\ mask.dim = 0 /\ Len(x) >= 2
    /\ x[1] # PadId /\ \E j \in Pos : x[j] = PadId
    /\ \E l \in Layers : \E h \in 1..NHeads : ~IsZero(Weight(l, h, 2, 1))

\* C4 (as stated): for every query position the attention weight on any key
\* position holding the PAD id is 0, with the default mask and with a
\* caller-supplied (batch, 1, seq_length) padding mask.
C4_PadKeysGetNoWeight ==
    mask.dim \in {0, 3} =>
        \A l \in Layers : \A h \in 1..NHeads : \A i \in Pos : \A j \in Pos :
            x[j] = PadId => IsZero(Weight(l, h, i, j))

\* C5: in evaluation mode every attention row has non-negative entries that
\* sum to 1, rows all of whose keys are masked included.
C5_RowsSumToOne ==
    ~training =>
        \A l \in Layers : \A h \in 1..NHeads : \A i \in Pos :
            /\ \A j \in Pos : ~Weight(l, h, i, j).nan /\ Weight(l, h, i, j).num >= 0
            /\ \A j \in Pos : Weight(l, h, i, j).den > 0
            /\ \A j \in Pos : Weight(l, h, i, j).den = Weight(l, h, i, 1).den
            /\ SumSeq([j \in Pos |-> Weight(l, h, i, j).num]) = Weight(l, h, i, 1).den

\* an evaluation-mode pass that produced a row with every key masked
C5_Witness ==
    /\ fpc = "done" /\ ~training /\ Len(attentions) = NLayers
    /\ \E i \in Pos : ~RowHasKey(i)
    /\ \E i \in Pos : RowHasKey(i) /\ i > 1

(***************************************************************************)
(* Claims about the tokenizer                                              *)
(***************************************************************************)
\* the lowercased text with every run of blanks reduced to one blank, no
\* blank at either end and one blank put on both sides of every punctuation
\* mark (written on characters, without the tokenizer)
RECURSIVE SingleSpaced(_, _, _, _)
SingleSpaced(t, i, out, gap) ==
    IF i > Len(t) THEN out
    ELSE LET c == LowerChar(t[i])
             sep == IF out = <<>> THEN <<>> ELSE <<" ">>
         IN  IF c = " " THEN SingleSpaced(t, i + 1, out, TRUE)
             ELSE IF c = ","
                  THEN SingleSpaced(t, i + 1, out \o sep \o <<c>>, TRUE)
             ELSE SingleSpaced(t, i + 1,
                               IF gap THEN out \o sep \o <<c>> ELSE Append(out, c),
                               FALSE)
CorpusTokens == UNION {Range(Tokenize(texts[i])) : i \in 1..Len(texts)}
\* the vocabulary comes from one build_vocab call on a new tokenizer, and
\* a text of that call went through encode and decode
RoundTripped ==
    /\ tpc = "decoded"
    /\ n_builds = 1
    /\ text \in Range(texts)
    /\ add_special_tokens = skip_special_tokens

\* C6 (as stated): for a text t the vocabulary was built from,
\* decode(encode(t, special), skip = special) is the lowercased t.
C6_RoundTripIsLowercasedText ==
    RoundTripped => decoded = Lower(text)

\* C6 (amended): for a text t the vocabulary was built from by one
\* build_vocab call on a new tokenizer, when the corpus
\* has at most vocab_size - 4 distinct tokens, decode(encode(t, special),
\* skip = special) is the lowercased t with its tokens separated by exactly
\* one blank; it is the lowercased t itself when t is already written so.
C6_RoundTripIsSingleSpacedText ==
    (RoundTripped /\ Cardinality(CorpusTokens) <= vocab_size - 4) =>
        /\ decoded = SingleSpaced(text, 1, <<>>, TRUE)
        /\ Lower(text) = SingleSpaced(text, 1, <<>>, TRUE) => decoded = Lower(text)

\* a round trip with special tokens of a two-token text that comes back as
\* its lowercased self
C6_Witness ==
    /\ RoundTripped /\ add_special_tokens
    /\ Cardinality(CorpusTokens) <= vocab_size - 4
    /\ Len(Tokenize(text)) = 2
    /\ text # Lower(text)
    /\ decoded = Lower(text)

(***************************************************************************)
(* Claims about SimpleTransformer.generate                                 *)
(***************************************************************************)
\* C1: generate, called with n token ids and max_length = m >= 0, returns a
\* token sequence of length at most n + m, and of length below n + m only if
\* a tokenizer was supplied and the last appended token is the EOS id.
C1_LengthWithinBudget ==
    (gpc = "returned" /\ max_length >= 0) =>
        /\ g_result.returned
        /\ g_result.ids = g_prompt
        /\ Len(g_result.ids) <= g_n + max_length
        /\ Len(g_result.ids) < g_n + max_length =>
              /\ g_tokenizer
              /\ Len(g_result.ids) > g_n
              /\ g_result.ids[Len(g_result.ids)] = eos_token_id
              /\ g_next_token = eos_token_id

\* a call with a tokenizer that stopped on EOS before its budget was used
C1_Witness ==
    /\ gpc = "returned" /\ g_tokenizer
    /\ g_i = 1 /\ max_length = 2
    /\ Len(g_result.ids) = g_n + 1
    /\ g_next_token = eos_token_id

(***************************************************************************)
(* Claims about the generate_text handler                                  *)
(***************************************************************************)
\* the positions of output_tensor the loop appended
Appended == (Len(output_tensor) - n_appended + 1)..Len(output_tensor)

\* the tensor top-k filtering was applied to in the last step
ScaledLogits == ApplyTemperature(BlockUnk(logits), temperature)

\* the vocabulary entries that kept a non-zero sampling probability
KeptEntries == MultinomialSupport(Softmax(next_token_logits))
Sampled == hpc = "loop" /\ n_appended > 0

\* C2: whatever the event and whichever step fails, lambda_handler returns
\* an object with a statusCode in {200, 400, 500} and a JSON body; an
\* exception in the generation block gives 500 with an 'error' body.
C2_AlwaysStatusAndJsonBody ==
    hpc = "returned" =>
        /\ response.returned = "dict"
        /\ response.statusCode \in {200, 400, 500}
        /\ response.body # {}
        /\ response.statusCode = 500 => "error" \in response.body

\* C7: no token the handler's loop appends is the UNK id, whatever the
\* temperature, top_k and max_tokens of the request.
C7_UnkNeverAppended ==
    /\ next_token # unk_token_id
    /\ \A i \in Appended : output_tensor[i] # unk_token_id

\* a step in which UNK had the largest logit of the model's output, after a
\* prompt that itself holds the UNK id
C7_Witness ==
    /\ Sampled
    /\ logits = Logits("unk_top")
    /\ \E i \in 1..Len(output_tensor) : output_tensor[i] = unk_token_id

\* C8 (as stated): with top_k = k > 0 at most k vocabulary entries keep a
\* non-zero sampling probability in a step, and the sampled token is one of
\* them.
C8_AtMostKKeepProbability ==
    (Sampled /\ top_k > 0) =>
        /\ Cardinality(KeptEntries) <= top_k
        /\ next_token \in KeptEntries

\* C8 (amended): with top_k = k > 0 every vocabulary entry that keeps a
\* non-zero sampling probability, the sampled token among them, has fewer
\* than k entries with a strictly larger logit; at most k entries are kept
\* when no other logit equals the k-th largest one, and no entry tied with
\* it is filtered out when some do.
C8_KeptEntriesRankInTopK ==
    (Sampled /\ top_k > 0) =>
        /\ next_token \in KeptEntries
        /\ \A t \in KeptEntries :
              Cardinality({u \in VocabIds : Above(ScaledLogits[u], ScaledLogits[t])}) < top_k
        /\ Cardinality({u \in VocabIds : ScaledLogits[u] = KthLargest(ScaledLogits, top_k)}) = 1
              => Cardinality(KeptEntries) <= top_k
        /\ \A u \in VocabIds :
              (ScaledLogits[u] = KthLargest(ScaledLogits, top_k) /\ ScaledLogits[u].k = "fin")
                 => next_token_logits[u] = ScaledLogits[u]

\* a step with k = 2 on pairwise distinct logits, where exactly two entries
\* were kept
C8_Witness ==
    /\ Sampled /\ top_k = 2
    /\ logits = Logits("distinct")
    /\ Cardinality(KeptEntries) = 2

\* C9: nothing is appended after a sampled EOS (the loop ends there), and a
\* loop that did not end on EOS ends after max_tokens appended tokens.
C9_StopsAtEos ==
    /\ \A i \in Appended : output_tensor[i] = eos_token_id => i = Len(output_tensor)
    /\ (hpc = "returned" /\ response.statusCode = 200) =>
          \/ n_appended = max_tokens
          \/ max_tokens < 0 /\ n_appended = 0
          \/ n_appended > 0 /\ next_token = eos_token_id

\* C10: an invocation runs load_model if and only if model or tokenizer is
\* unpopulated at entry; once both are populated they stay so and no later
\* invocation loads; past the loading phase a request never assigns them.
C10_LoadsOnlyWhenUnpopulated ==
    [][/\ (hpc = "idle" /\ hpc' # "idle") =>
             (load_called' <=> (model = "None" \/ tokenizer = "None"))
       /\ (model # "None" /\ tokenizer # "None") =>
             /\ model' = model /\ tokenizer' = tokenizer
             /\ hpc = "idle" => ~load_called'
       /\ hpc # "idle" => (model' = model /\ tokenizer' = tokenizer)]_vars

\* a warm invocation: both globals populated by an earlier invocation, no
\* load in this one
C10_Witness ==
    /\ hpc = "loop" /\ ~load_called
    /\ model = "ready" /\ tokenizer = "ready"

\* C11: when load_model fails in an invocation (it was called and left the
\* tokenizer unset), the handler returns statusCode 500 with an 'error' body
\* and the invocation parses nothing, runs no forward pass and samples
\* nothing.
C11_LoadFailureGives500 ==
    (hpc # "idle" /\ load_called /\ tokenizer = "None") =>
        /\ hpc = "returned"
        /\ response.returned = "dict" /\ response.statusCode = 500
        /\ "error" \in response.body
        /\ prompt = <<>> /\ output_tensor = <<>>
        /\ n_appended = 0 /\ logits = NoLogits /\ next_token = NoToken

\* an invocation whose load failed at the last step, reading the tokenizer
C11_Witness ==
    /\ hpc = "returned" /\ load_called
    /\ model = "ready" /\ tokenizer = "None"

\* the body is not JSON, or one of the three numbers does not convert
Malformed(ev) ==
    ~ev.body_ok \/ ~ev.temperature.ok \/ ~ev.max_tokens.ok \/ ~ev.top_k.ok

\* C12: a request whose body is not valid JSON, or whose temperature,
\* max_tokens or top_k does not convert to a number, is answered with
\* statusCode 400 and an 'error' body; no forward pass runs in the
\* invocation and model and tokenizer stay as they were.
C12_MalformedRequestGives400 ==
    [][/\ (hpc = "parse" /\ Malformed(event)) =>
             /\ hpc' = "returned"
             /\ response'.returned = "dict" /\ response'.statusCode = 400
             /\ "error" \in response'.body
             /\ output_tensor' = <<>> /\ n_appended' = 0 /\ logits' = NoLogits
             /\ model' = model /\ tokenizer' = tokenizer
       /\ (hpc = "returned" /\ response.statusCode = 400) =>
             /\ hpc' = "idle"
             /\ model' = model /\ tokenizer' = tokenizer]_vars

\* a request with an unconvertible top_k answered by a loaded process
C12_Witness ==
    /\ hpc = "returned" /\ response.statusCode = 400
    /\ ~event.top_k.ok
    /\ model = "ready" /\ tokenizer = "ready"

\* C13: a request that carries only max_length = n for the token budget (no
\* max_tokens, as the Streamlit client sends it) is generated with the
\* budget n and gets at most n new tokens.
C13_MaxLengthIsTheBudget ==
    ("max_length" \in event.keys /\ "max_tokens" \notin event.keys
        /\ hpc \in {"encode", "loop"}) =>
        /\ max_tokens = event.max_length.v
        /\ n_appended <= event.max_length.v

\* C14: every statusCode 200 response body holds generated_text, prompt and
\* settings, and the settings are the temperature, max_tokens and top_k of
\* the request.
C14_SuccessBodyHasSettings ==
    (hpc = "returned" /\ response.returned = "dict" /\ response.statusCode = 200) =>
        /\ {"generated_text", "prompt", "settings"} \subseteq response.body
        /\ response.settings = <<temperature, max_tokens, top_k>>

\* p occurs in t as a run of consecutive characters
IsSubstring(p, t) ==
    \E i \in 0..(Len(t) - Len(p)) : SubSeq(t, i + 1, i + Len(p)) = p

\* C15: in every successful generation response the prompt of the request
\* occurs verbatim as a substring of generated_text.
C15_PromptOccursVerbatim ==
    (hpc = "returned" /\ response.returned = "dict" /\ response.statusCode = 200) =>
        IsSubstring(prompt, response.generated_text)

\* C16: a request with invalid parameters (here all four at once, as the
\* regression test sends them: empty prompt, negative max_tokens, negative
\* temperature, top_k = 0) is answered with a status code >= 400 and a JSON
\* body, never with 200.
C16_InvalidParametersRejected ==
    (/\ hpc = "returned"
     /\ event.body_ok /\ event.keys = HandlerKeys
     /\ event.prompt = <<>>
     /\ event.max_tokens.ok /\ event.max_tokens.v < 0
     /\ event.temperature.ok /\ ExtLess(event.temperature.v, Fin(0))
     /\ event.top_k.ok /\ event.top_k.v = 0) =>
        /\ response.returned = "dict"
        /\ response.statusCode >= 400
        /\ response.body # {}

(***************************************************************************)
(* Claims about the visualize_attention handler                            *)
(***************************************************************************)
VisAnswered == vpc = "returned" /\ v_response.returned = "dict"
\* the heads a request asks for with 'heads' or 'head'
RequestedHeads(ev) ==
    IF "heads" \in ev.keys THEN ev.heads
    ELSE IF "head" \in ev.keys THEN {ev.head}
    ELSE {}

\* C17: a request whose text is 'warmup' (with the keys text, layer and
\* head of the client's warm-up request), sent to a process whose artifacts
\* load, is answered with statusCode 200 and a body whose status is
\* 'warmed'.
C17_WarmupAnsweredWarmed ==
    (VisAnswered /\ v_tokenizer = "ready"
        /\ v_event.keys = VisWarmupKeys /\ v_event.text = Warmup) =>
        /\ v_response.statusCode = 200
        /\ "status" \in v_response.body
        /\ v_response.status = "warmed"

\* C18: every statusCode 200 visualization body holds the token list under
\* tokens and the heatmap as base64 PNG under attention_image or
\* attention_images; a request that lists k > 1 heads gets exactly k images.
C18_SuccessBodyHasImages ==
    (VisAnswered /\ v_response.statusCode = 200) =>
        /\ "tokens" \in v_response.body
        /\ v_response.tokens =
              TokenStrings(LoadedIdxToWord, Encode(LoadedWordToIdx, v_event.text, TRUE))
        /\ {"attention_image", "attention_images"} \cap v_response.body # {}
        /\ v_response.images >= 1
        /\ ("heads" \in v_event.keys /\ Cardinality(v_event.heads) > 1) =>
              v_response.images = Cardinality(v_event.heads)

\* C19: for a request with layer = l in 0..3 and head or heads, a
\* successful answer is drawn from the attention tensor of layer l and
\* shows the requested head(s) and no other.
C19_RendersRequestedLayerAndHeads ==
    (VisAnswered /\ v_response.statusCode = 200
        /\ "layer" \in v_event.keys /\ v_event.layer \in 0..(n_layers - 1)) =>
        /\ v_response.layer = v_event.layer
        /\ v_response.heads = RequestedHeads(v_event)

(***************************************************************************)
(* Claims about the constructors                                           *)
(***************************************************************************)
\* no integer q gives q * n = d
Indivisible(d, n) == \A q \in (0 - d)..d : q * n # d
HoldsAttention == c_class \in {"MultiHeadAttention", "EncoderLayer"} \/ c_args.n_layers >= 1
BuiltWithHeadSize ==
    /\ c_object.status = "object"
    /\ c_object.d_k = c_object.d_v
    /\ c_object.d_k * c_args.n_heads = c_args.d_model

DecodeProbes == {<<2, 4, 3>>, <<5, 1, 4>>, <<0, 6>>}

\* C21: load applied to the file written by save yields a tokenizer with
\* the same vocab_size, the same word_to_idx and the same idx_to_word
\* (integer keys) as the saved one, and encode and decode give the same
\* results on it as on the saved one.
C21_LoadRestoresSavedTokenizer ==
    tpc = "loaded" =>
        /\ loaded.vocab_size = vocab_size
        /\ loaded.word_to_idx = word_to_idx
        /\ loaded.idx_to_word = idx_to_word
        /\ \A k \in DOMAIN loaded.idx_to_word : k \in Nat
        /\ \A t \in Range(texts) \cup ProbeTexts : \A sp \in BOOLEAN :
              Encode(loaded.word_to_idx, t, sp) = Encode(word_to_idx, t, sp)
        /\ \A is \in DecodeProbes : \A sk \in BOOLEAN :
              Decode(loaded.idx_to_word, is, sk) = Decode(idx_to_word, is, sk)

\* a tokenizer with two corpus words, saved and loaded
C21_Witness ==
    /\ tpc = "loaded"
    /\ Cardinality(DOMAIN word_to_idx) = 6
    /\ file.exists /\ <<"5">> \in DOMAIN file.data.idx_to_word
    /\ loaded.exists /\ 5 \in DOMAIN loaded.idx_to_word

\* C22: encode maps every in-vocabulary token to its id and every
\* out-of-vocabulary token to the UNK id, in token order; with
\* add_special_tokens the result is BOS, the token ids, EOS (token count + 2
\* ids), without it exactly the token ids.
C22_EncodeMapsEveryToken ==
    tpc = "encoded" =>
        LET tokens == Tokenize(text)
            first == IF add_special_tokens THEN 2 ELSE 1
        IN  /\ Len(ids) = Len(tokens) + (IF add_special_tokens THEN 2 ELSE 0)
            /\ add_special_tokens =>
                  ids[1] = bos_token_id /\ ids[Len(ids)] = eos_token_id
            /\ \A i \in 1..Len(tokens) :
                  ids[first + i - 1] = IF tokens[i] \in DOMAIN word_to_idx
                                       THEN word_to_idx[tokens[i]]
                                       ELSE unk_token_id

\* a text with a known and an unknown token, encoded with BOS and EOS
C22_Witness ==
    /\ tpc = "encoded" /\ add_special_tokens
    /\ Len(ids) = 5
    /\ ids[1] = bos_token_id /\ ids[5] = eos_token_id
    /\ \E i \in 2..4 : ids[i] = unk_token_id
    /\ \E i \in 2..4 : ids[i] >= 4

\* the corpus of the last build_vocab call, as one list of tokens
AllWords == Flatten([i \in 1..Len(texts) |-> Tokenize(texts[i])])
\* the words of the vocabulary besides the four reserved ones
CorpusWords == DOMAIN word_to_idx \ DOMAIN special_tokens
ReservedKeepIds ==
    /\ \A w \in DOMAIN special_tokens :
          w \in DOMAIN word_to_idx /\ word_to_idx[w] = special_tokens[w]
    /\ \A i \in 0..3 : i \in DOMAIN idx_to_word /\ idx_to_word[i] = InitialIdxToWord[i]
\* the vocabulary is the reserved ids plus the vocab_size - 4 most frequent
\* corpus tokens, with ids 4, 5, ... in non-increasing frequency order
HoldsMostFrequent ==
    LET slots == vocab_size - 4
        distinct == Cardinality(Range(AllWords))
    IN  /\ Cardinality(DOMAIN word_to_idx) <= vocab_size
        /\ ReservedKeepIds
        /\ CorpusWords \subseteq Range(AllWords)
        /\ Cardinality(CorpusWords) = IF slots < distinct THEN slots ELSE distinct
        /\ \A w \in CorpusWords : \A o \in Range(AllWords) \ CorpusWords :
              Count(AllWords, w) >= Count(AllWords, o)
        /\ {word_to_idx[w] : w \in CorpusWords} = 4..(3 + Cardinality(CorpusWords))
        /\ \A w \in CorpusWords : \A o \in CorpusWords :
              word_to_idx[w] < word_to_idx[o] => Count(AllWords, w) >= Count(AllWords, o)
        /\ \A w \in CorpusWords : idx_to_word[word_to_idx[w]] = w
FirstBuildDone == tpc = "built" /\ n_builds = 1

\* C23 (as stated): after build_vocab on a freshly constructed tokenizer
\* with any vocab_size, the vocabulary holds at most vocab_size entries: the
\* four reserved ids 0-3 plus the vocab_size - 4 most frequent corpus
\* tokens, whose ids 4, 5, ... are assigned in non-increasing frequency
\* order.
C23_VocabularyWithinAnyVocabSize ==
    FirstBuildDone => HoldsMostFrequent

\* C23 (amended): the same for a freshly constructed tokenizer with
\* vocab_size >= 4.
C23_VocabularyWithinVocabSizeFromFour ==
    (FirstBuildDone /\ vocab_size >= 4) => HoldsMostFrequent

\* one free slot, taken by the mark that occurs twice and not by the word
\* that occurs first
C23_Witness ==
    /\ FirstBuildDone /\ vocab_size = 5
    /\ AllWords = << <<"a">>, <<",">>, <<",">> >>
    /\ word_to_idx[<<",">>] = 4
    /\ <<"a">> \notin DOMAIN word_to_idx

\* C24: after any sequence of build_vocab calls on one tokenizer,
\* word_to_idx and idx_to_word are mutual inverses over the contiguous ids
\* 0..n-1, PAD/UNK/BOS/EOS keep the ids 0-3, and n is at most vocab_size.
C24_MapsStayInverseAndCapped ==
    n_builds >= 1 =>
        LET n == Cardinality(DOMAIN word_to_idx)
        IN  /\ DOMAIN idx_to_word = 0..(n - 1)
            /\ \A w \in DOMAIN word_to_idx :
                  word_to_idx[w] \in DOMAIN idx_to_word /\ idx_to_word[word_to_idx[w]] = w
            /\ \A i \in DOMAIN idx_to_word :
                  idx_to_word[i] \in DOMAIN word_to_idx /\ word_to_idx[idx_to_word[i]] = i
            /\ ReservedKeepIds
            /\ n <= vocab_size

(***************************************************************************)
(* Claims about the cost-drift run                                         *)
(***************************************************************************)
\* at least 7 daily totals, and the mean of the last 3 exceeds 1.5 times the
\* mean of the 3 at positions -7..-5
DriftInData ==
    LET c == cost_data.costs
        n == Len(c)
    IN  /\ n >= 7
        /\ 2 * (c[n] + c[n - 1] + c[n - 2]) > 3 * (c[n - 6] + c[n - 5] + c[n - 4])

\* C25: in the cost-drift run, when at least 7 daily totals exist and the
\* mean of the last 3 days exceeds 1.5 times the mean of the 3 days at
\* positions -7..-5, the run ends with a non-zero exit status; when no
\* drift is detected or a non-drift error occurs, it does not exit with an
\* error code.
C25_DriftExitsNonZero ==
    cdpc = "exited" =>
        IF cost_data.amounts_ok /\ DriftInData
        THEN exit_status # 0
        ELSE exit_status = 0

(***************************************************************************)
(* Claims about loading, sequence length and indices in the handlers       *)
(***************************************************************************)
\* model and tokenizer were both assigned by load number n, which completed
CompletedLoad(history, m_from, t_from) ==
    /\ m_from >= 1 /\ m_from = t_from
    /\ m_from <= Len(history) /\ history[m_from] = "ok"

\* C26: whenever an invocation of the generate_text handler is parsing the
\* request or generating, model and tokenizer are both populated, by one
\* load that completed; and as long as no load has completed, a load that
\* failed part-way leaves model or tokenizer unset, so that the next
\* invocation loads again.
C26_ServesOnlyAfterCompletedLoad ==
    /\ hpc \in {"parse", "encode", "loop"} =>
          /\ model = "ready" /\ tokenizer = "ready"
          /\ CompletedLoad(loads, model_from, tokenizer_from)
    /\ (\A n \in 1..Len(loads) : loads[n] # "ok") =>
          /\ model = "None" \/ tokenizer = "None"
          /\ hpc \in {"idle", "returned"}

\* the same for the visualize_attention handler
VisServesOnlyAfterCompletedLoad ==
    /\ vpc \in {"parse", "visualize"} =>
          /\ v_model = "ready" /\ v_tokenizer = "ready"
          /\ CompletedLoad(v_loads, v_model_from, v_tokenizer_from)
    /\ (\A n \in 1..Len(v_loads) : v_loads[n] # "ok") =>
          /\ v_model = "None" \/ v_tokenizer = "None"
          /\ vpc \in {"idle", "returned"}

\* generation after a first load that failed while applying the weights and
\* a second load that completed
C26_Witness ==
    /\ hpc = "loop" /\ n_appended > 0
    /\ loads = <<"load_state_dict_fails", "ok">>
    /\ model_from = 2 /\ tokenizer_from = 2

\* the loop is about to call the model on output_tensor
ForwardIssued == hpc = "loop" /\ n_appended < max_tokens

\* C27: with max_seq_length = 128, every forward pass issued by the loop of
\* the generate_text handler runs on a sequence no longer than
\* max_seq_length, for every prompt and max_tokens the handler accepts, and
\* a parsed request completes with exactly max_tokens appended tokens.
C27_ForwardWithinMaxSeqLength ==
    /\ ForwardIssued => Len(output_tensor) <= max_seq_length
    /\ (hpc = "returned" /\ model = "ready" /\ tokenizer = "ready"
          /\ ~(response.returned = "dict" /\ response.statusCode = 400)) =>
          /\ response.returned = "dict" /\ response.statusCode = 200
          /\ n_appended = IF max_tokens < 0 THEN 0 ELSE max_tokens

\* the layer index and the head indices a request carries, under the names
\* the handler reads (layer_idx, head_idx) or the client's (layer, head,
\* heads)
RequestLayer(ev) ==
    IF "layer_idx" \in ev.keys THEN ev.layer_idx.v
    ELSE IF "layer" \in ev.keys THEN ev.layer
    ELSE 0
RequestHeads(ev) ==
    IF "head_idx" \in ev.keys
    THEN IF ev.head_idx.none THEN {} ELSE {ev.head_idx.v}
    ELSE RequestedHeads(ev)
IndexOutOfRange(ev) ==
    \/ RequestLayer(ev) \notin 0..(n_layers - 1)
    \/ \E h \in RequestHeads(ev) : h \notin 0..(n_heads - 1)
\* the request was parsed by a process whose artifacts are loaded
VisParsed ==
    /\ v_event.body_ok /\ v_event.layer_idx.ok /\ v_event.head_idx.ok
    /\ v_model = "ready" /\ v_tokenizer = "ready"

\* C28: a visualization request whose layer index is outside
\* 0..n_layers-1 or whose head index is outside 0..n_heads-1, negative
\* values included, never gets a 200 response; it ends in the 500
\* 'Visualization failed' response with no image uploaded.
C28_IndexOutOfRangeGives500 ==
    (VisAnswered /\ VisParsed /\ IndexOutOfRange(v_event)) =>
        /\ v_response.statusCode = 500
        /\ v_response.body = {"error", "traceback"}
        /\ "visualization_url" \notin v_response.body

(***************************************************************************)
(* Claims about the Streamlit client                                       *)
(***************************************************************************)
Returned == apc \in {"returned", "shown"}
Http200 == post_outcome.kind = "response" /\ post_outcome.status_code = 200
ExactlyOneIsSet == (result # PyNone) # (error # PyNone)
ErrorShown == apc = "shown" /\ shown.branch = "error"

\* C29 (as stated): call_api always returns a pair in which exactly one of
\* result and error is not None: a result only for an HTTP 200 response,
\* an error message for every other status, timeout, network failure or
\* other exception; and the page's else branch always has a message to show.
C29_ExactlyOneOfResultAndError ==
    /\ Returned =>
          /\ ExactlyOneIsSet
          /\ result # PyNone => Http200
          /\ ~Http200 => error # PyNone
    /\ ErrorShown => shown.message # PyNone

\* C29 (amended): the same, except that for an HTTP 200 response whose JSON
\* body is null both result and error are None, and that the page's else
\* branch has no message when an HTTP 200 response carries a JSON body that
\* is false in Python (null, an empty object, 0).
C29_ExactlyOneUnlessNullBody ==
    /\ Returned =>
          /\ ~(Http200 /\ post_outcome.body = "null") => ExactlyOneIsSet
          /\ (Http200 /\ post_outcome.body = "null") =>
                (result = PyNone /\ error = PyNone)
          /\ result # PyNone => Http200
          /\ ~Http200 => error # PyNone
    /\ (ErrorShown /\ ~(Http200 /\ post_outcome.body \in {"null", "empty_object", "zero"})) =>
          shown.message # PyNone

\* a 500 response shown as an API error
C29_Witness ==
    /\ apc = "shown"
    /\ post_outcome.kind = "response" /\ post_outcome.status_code = 500
    /\ result = PyNone /\ error = "API Error"
    /\ shown = [branch |-> "error", message |-> "API Error"]

\* a step in which a health request or a warm-up request is sent
RequestSent == n_health' # n_health \/ n_warmup' # n_warmup

\* C30: within one session, health and warm-up requests are sent only while
\* models_status_checked is false, a session that was checked stays checked,
\* and models_ready is true only after some health check of that session
\* returned HTTP 200.
C30_ChecksOnlyUntilChecked ==
    [][ /\ RequestSent =>
              session_state.present /\ ~session_state.models_status_checked
        /\ session_state.models_status_checked =>
              session_state'.models_status_checked
        /\ session_state'.models_ready => health_200' ]_vars

\* a later run of a session that was warmed up, verified with status 200
\* and marked as checked
C30_Witness ==
    /\ session_state.models_status_checked
    /\ session_state.models_ready
    /\ n_warmup > 0 /\ n_health >= 2
    /\ runs >= 2
    /\ wpc = "idle"

====
